---- MODULE Spec2Model ----
(***************************************************************************)
(* Model of the market-data analysis engine of is_market_bluffing:         *)
(*   - the drawdown/recovery event detector and the per-ticker pipeline    *)
(*     (backend/app/services/analysis.py), specification SpecDetector;     *)
(*   - the concurrent orchestrator BluffAnalysisService.run with the cache *)
(*     files its tasks open in the provider                                *)
(*     (backend/app/services/yfinance_provider.py), specifications         *)
(*     SpecRun, SpecTasks and SpecPool;                                    *)
(*   - the provider's price cache, meta cache and beta, specifications     *)
(*     SpecPrices, SpecMeta, SpecMetaDamage and SpecBeta;                  *)
(*   - the provider's default universe, specification SpecUniverse.        *)
(*                                                                         *)
(* Floats are modelled as exact rationals [n, d] with d > 0; prices are    *)
(* whole numbers; dates are day numbers; an optional value (float | None)  *)
(* is the empty sequence (None) or a one-element sequence.                 *)
(***************************************************************************)
EXTENDS Integers, Sequences, FiniteSets, TLC

VARIABLES
    \* ---- _find_qualifying_events / _analyze_ticker, one ticker ----
    dpc,            \* position: "start", "loop", "returned", "analyzed"
    threshold_pct,  \* the threshold handed to the detector (a rational)
    decline_threshold_pct, \* the base threshold of the run (a rational)
    beta,           \* meta.beta of the ticker (a rational)
    idx,            \* number of rows consumed so far
    row,            \* the row consumed last: [date, High, Low]
    det,            \* the detector's local variables and its events list
    stock,          \* the StockAnalysis built from the events (optional)
    \* ---- BluffAnalysisService.run ----
    tickers,        \* the ticker list passed to run
    rpc,            \* position of run: "init", "collecting", "done"
    task_ticker,    \* the ticker bound to each submitted task
    tpc,            \* position of each task
    prices,         \* each task's price frame (local of _analyze_ticker)
    market_cap_musd,\* each task's market cap inside get_ticker_meta
    outcome,        \* each future's result
    collected,      \* futures already yielded by as_completed
    declined_stocks,
    declined_event_count,
    recovered_event_count,
    failed_tickers,
    max_workers,    \* the size of the thread pool
    summary,        \* the AnalysisSummary returned (optional)
    \* ---- YFinanceMarketDataProvider, one ticker ----
    price_file,     \* the ticker's price cache file: absent or its CSV lines
    gph,            \* the last get_price_history call: arguments, locals, result
    today,          \* date.today(), a day number
    meta_file,      \* the ticker's meta cache file: absent or its JSON payload
    gtm,            \* the last get_ticker_meta call: arguments, locals, result
    cb,             \* the last _compute_beta call: its two series and its result
    \* ---- YFinanceMarketDataProvider.get_default_universe ----
    live_cache_file,        \* sp500_live_cache.csv: absent or its content
    snapshot_file,          \* sp500_snapshot_feb2026.csv, bundled
    seed_file,              \* default_universe_300.csv, bundled
    default_universe_size,  \* settings.default_universe_size
    gdu             \* the last get_default_universe call: inputs, locals, result

detVars == <<dpc, threshold_pct, decline_threshold_pct, beta, idx, row, det, stock>>
runVars == <<tickers, rpc, max_workers, task_ticker, tpc, prices, market_cap_musd, outcome,
             collected, declined_stocks, declined_event_count,
             recovered_event_count, failed_tickers, summary>>
provVars == <<price_file, gph, today, meta_file, gtm, cb>>
uniVars == <<live_cache_file, snapshot_file, seed_file, default_universe_size, gdu>>
vars == <<detVars, runVars, provVars, uniVars>>

----------------------------------------------------------------------------
(* Bounds of the model *)
MaxBars == 4
MaxPoolTickers == 5
MaxTickers == 2

----------------------------------------------------------------------------
(* Optional values and rationals *)
None == <<>>
Some(v) == <<v>>
IsNone(o) == o = <<>>
Get(o) == o[1]

Rat(n, d) == [n |-> n, d |-> d]
RatGE(a, b) == a.n * b.d >= b.n * a.d
RatGT(a, b) == a.n * b.d > b.n * a.d
RatEq(a, b) == a.n * b.d = b.n * a.d
RatMul(a, b) == [n |-> a.n * b.n, d |-> a.d * b.d]
RatMax(a, b) == IF RatGE(a, b) THEN a ELSE b
RatOne == Rat(1, 1)

\* round(x, 4), in units of 1e-4 (no rational of the model lies on a tie)
Round4(x) == (2 * x.n * 10000 + x.d) \div (2 * x.d)

----------------------------------------------------------------------------
(* Inputs of the model *)
Prices == {79, 90, 100, 101}
DateGaps == {0, 1, 3}
BaseThresholds == {10, 20}
Betas == {Rat(-1, 2), Rat(1, 2), Rat(1, 1), Rat(21, 20)}
\* the base thresholds as floats: whole percents, and one that is not a
\* multiple of 1e-4 (10.333333333333334 of the request, taken as 31/3)
BaseThresholdValues == {Rat(t, 1) : t \in BaseThresholds} \cup {Rat(31, 3)}
Bars == {b \in [High : Prices, Low : Prices] : b.High >= b.Low}

----------------------------------------------------------------------------
(* _find_qualifying_events: the detector, one row at a time *)

\* mutant: the decline taken relative to the trough
DeclinePct_ByTrough(peak, low) == Rat((peak - low) * 100, low)

\* (peak - low) / peak * 100.0
DeclinePct(peak, low) == Rat((peak - low) * 100, peak)

\* mutant: the base is scaled by beta itself
Threshold_NoFloor(base, b) == RatMul(base, b)

\* decline_threshold_pct * max(1.0, beta)
Threshold(base, b) == RatMul(base, RatMax(RatOne, b))

\* the locals after rows[0] has been read
DetectInit(first) ==
    [state |-> "tracking_peak",
     peak_price |-> first.High, peak_date |-> first.date,
     event_peak_price |-> first.High, event_peak_date |-> first.date,
     trigger_price |-> first.High, trigger_date |-> first.date,
     events |-> <<>>]

\* tracking_peak: `if high > peak_price` moves the running peak to this row
RunningPeak(d, r) ==
    IF r.High > d.peak_price
    THEN [price |-> r.High, date |-> r.date]
    ELSE [price |-> d.peak_price, date |-> d.peak_date]

\* mutant: the decline is tested on the bar of the peak too
OpensEvent_SameBar(pk, r, thr) == RatGE(DeclinePct(pk.price, r.Low), thr)

\* tracking_peak: the row opens an event
OpensEvent(pk, r, thr) ==
    /\ r.date > pk.date
    /\ RatGE(DeclinePct(pk.price, r.Low), thr)

\* mutant: recovery without the date test
ClosesEvent_NoDate(d, r) == r.High >= d.event_peak_price

\* mutant: recovery only above the event peak
ClosesEvent_Strict(d, r) ==
    /\ r.High > d.event_peak_price
    /\ r.date > d.trigger_date

\* in_drawdown: the row closes the event as recovered
ClosesEvent(d, r) ==
    /\ r.High >= d.event_peak_price
    /\ r.date > d.trigger_date

RecoveredEvent(d, r) ==
    [peak_date |-> d.event_peak_date,
     trough_date |-> d.trigger_date,
     decline_pct |-> DeclinePct(d.event_peak_price, d.trigger_price),
     peak_price |-> d.event_peak_price,
     trough_price |-> d.trigger_price,
     recovered |-> TRUE,
     recovery_date |-> Some(r.date),
     recovery_price |-> Some(r.High),
     recovery_days |-> Some(r.date - d.trigger_date)]

UnrecoveredEvent(d) ==
    [peak_date |-> d.event_peak_date,
     trough_date |-> d.trigger_date,
     decline_pct |-> DeclinePct(d.event_peak_price, d.trigger_price),
     peak_price |-> d.event_peak_price,
     trough_price |-> d.trigger_price,
     recovered |-> FALSE,
     recovery_date |-> None,
     recovery_price |-> None,
     recovery_days |-> None]

\* mutant: a lower low inside the drawdown moves the trough
DetectStep_TroughFollowsLow(d, r, thr) ==
    IF d.state = "tracking_peak"
    THEN LET pk == RunningPeak(d, r) IN
         IF OpensEvent(pk, r, thr)
         THEN [d EXCEPT !.peak_price = pk.price, !.peak_date = pk.date,
                        !.state = "in_drawdown",
                        !.event_peak_price = pk.price,
                        !.event_peak_date = pk.date,
                        !.trigger_price = r.Low,
                        !.trigger_date = r.date]
         ELSE [d EXCEPT !.peak_price = pk.price, !.peak_date = pk.date]
    ELSE IF ClosesEvent(d, r)
         THEN [d EXCEPT !.events = Append(@, RecoveredEvent(d, r)),
                        !.state = "tracking_peak",
                        !.peak_price = r.High,
                        !.peak_date = r.date]
         ELSE IF r.Low < d.trigger_price
              THEN [d EXCEPT !.trigger_price = r.Low, !.trigger_date = r.date]
              ELSE d

\* mutant: the running peak is not reseeded from the recovery row
DetectStep_NoReseed(d, r, thr) ==
    IF d.state = "tracking_peak"
    THEN LET pk == RunningPeak(d, r) IN
         IF OpensEvent(pk, r, thr)
         THEN [d EXCEPT !.peak_price = pk.price, !.peak_date = pk.date,
                        !.state = "in_drawdown",
                        !.event_peak_price = pk.price,
                        !.event_peak_date = pk.date,
                        !.trigger_price = r.Low,
                        !.trigger_date = r.date]
         ELSE [d EXCEPT !.peak_price = pk.price, !.peak_date = pk.date]
    ELSE IF ClosesEvent(d, r)
         THEN [d EXCEPT !.events = Append(@, RecoveredEvent(d, r)),
                        !.state = "tracking_peak"]
         ELSE d

\* one iteration of `for idx in range(1, len(rows))`
DetectStep(d, r, thr) ==
    IF d.state = "tracking_peak"
    THEN LET pk == RunningPeak(d, r) IN
         IF OpensEvent(pk, r, thr)
         THEN [d EXCEPT !.peak_price = pk.price, !.peak_date = pk.date,
                        !.state = "in_drawdown",
                        !.event_peak_price = pk.price,
                        !.event_peak_date = pk.date,
                        !.trigger_price = r.Low,
                        !.trigger_date = r.date]
         ELSE [d EXCEPT !.peak_price = pk.price, !.peak_date = pk.date]
    ELSE IF ClosesEvent(d, r)
         THEN [d EXCEPT !.events = Append(@, RecoveredEvent(d, r)),
                        !.state = "tracking_peak",
                        !.peak_price = r.High,
                        !.peak_date = r.date]
         ELSE d

\* mutant: the open event is dropped at the end of the series
FinalEvents_Dropped(d) == d.events

\* after the loop: `if state == "in_drawdown"` appends the unrecovered event
FinalEvents(d) ==
    IF d.state = "in_drawdown"
    THEN Append(d.events, UnrecoveredEvent(d))
    ELSE d.events

\* the whole function on a sorted frame without missing values
RECURSIVE DetectLoop(_, _, _, _)
DetectLoop(d, rows, i, thr) ==
    IF i > Len(rows) THEN d
    ELSE DetectLoop(DetectStep(d, rows[i], thr), rows, i + 1, thr)

FindQualifyingEvents(rows, thr) ==
    IF Len(rows) < 2 THEN <<>>
    ELSE FinalEvents(DetectLoop(DetectInit(rows[1]), rows, 2, thr))

----------------------------------------------------------------------------
(* _analyze_ticker: from the events to the StockAnalysis *)

\* [event for event in events if event.recovered]
RecoveredEvents(events) == SelectSeq(events, LAMBDA e : e.recovered)

\* max(events, key=decline_pct): the first event of maximal decline_pct
RECURSIVE MaxDecline(_, _, _)
MaxDecline(events, i, best) ==
    IF i > Len(events) THEN best
    ELSE MaxDecline(events, i + 1,
                    IF RatGT(events[i].decline_pct, best.decline_pct)
                    THEN events[i] ELSE best)

\* mutant: the largest decline whether recovered or not
Representative_Largest(events) == MaxDecline(events, 2, events[1])

\* the representative event (events is not empty)
Representative(events) ==
    LET recovered_events == RecoveredEvents(events) IN
    IF recovered_events # <<>>
    THEN MaxDecline(recovered_events, 2, recovered_events[1])
    ELSE MaxDecline(events, 2, events[1])

\* round(price, 4) and round(market_cap_musd, 3) of a whole number,
\* in units of 1e-4 and 1e-3
Round4Price(p) == Round4(Rat(p, 1))
Round3Cap(c) == (2 * c * 1000 + 1) \div 2

BuildStock(ticker, events, thr, b, cap) ==
    LET recovered_events == RecoveredEvents(events)
        recovered == recovered_events # <<>>
        representative == Representative(events)
    IN  [ticker |-> ticker,
         decline_pct |-> Round4(representative.decline_pct),
         threshold_pct |-> Round4(thr),
         beta |-> Round4(b),
         peak_date |-> representative.peak_date,
         trough_date |-> representative.trough_date,
         peak_price |-> Round4Price(representative.peak_price),
         trough_price |-> Round4Price(representative.trough_price),
         market_cap_musd |-> IF IsNone(cap) THEN None
                             ELSE Some(Round3Cap(Get(cap))),
         recovered |-> recovered,
         recovery_date |-> IF representative.recovered
                           THEN representative.recovery_date ELSE None,
         recovery_price |-> IF representative.recovered
                            THEN Some(Round4Price(Get(representative.recovery_price)))
                            ELSE None,
         recovery_days |-> IF representative.recovered
                           THEN representative.recovery_days ELSE None,
         qualifying_events |-> Len(events),
         recovered_events |-> Len(recovered_events)]

----------------------------------------------------------------------------
(* Specification SpecDetector: one ticker, its rows fed in date order *)

NoRow == [date |-> 0, High |-> 0, Low |-> 0]
TheTicker == <<"M", "S">>

DetInit ==
    /\ dpc = "start"
    /\ decline_threshold_pct \in BaseThresholdValues
    /\ beta \in Betas
    /\ threshold_pct = Threshold(decline_threshold_pct, beta)
    /\ idx = 0
    /\ row = NoRow
    /\ det = DetectInit(NoRow)
    /\ stock = None

\* rows[0]: seeds the running peak
FirstRow ==
    /\ dpc = "start"
    /\ \E b \in Bars :
         /\ row' = [date |-> 0, High |-> b.High, Low |-> b.Low]
         /\ det' = DetectInit(row')
    /\ idx' = 1
    /\ dpc' = "loop"
    /\ UNCHANGED <<threshold_pct, decline_threshold_pct, beta, stock>>
    /\ UNCHANGED <<runVars, provVars, uniVars>>

\* rows[idx], idx >= 1: one iteration of the loop
NextRow ==
    /\ dpc = "loop"
    /\ idx < MaxBars
    /\ \E b \in Bars, gap \in DateGaps :
         /\ row' = [date |-> row.date + gap, High |-> b.High, Low |-> b.Low]
         /\ det' = DetectStep(det, row', threshold_pct)
    /\ idx' = idx + 1
    /\ UNCHANGED <<dpc, threshold_pct, decline_threshold_pct, beta, stock>>
    /\ UNCHANGED <<runVars, provVars, uniVars>>

\* the frame is exhausted: the function returns its events
Return ==
    /\ dpc \in {"start", "loop"}
    /\ det' = [det EXCEPT !.events = IF idx < 2 THEN <<>> ELSE FinalEvents(det)]
    /\ dpc' = "returned"
    /\ UNCHANGED <<threshold_pct, decline_threshold_pct, beta, idx, row, stock>>
    /\ UNCHANGED <<runVars, provVars, uniVars>>

\* _analyze_ticker, after the detector
Analyze ==
    /\ dpc = "returned"
    /\ stock' = IF det.events = <<>> THEN None
                ELSE Some(BuildStock(TheTicker, det.events, threshold_pct, beta, None))
    /\ dpc' = "analyzed"
    /\ UNCHANGED <<threshold_pct, decline_threshold_pct, beta, idx, row, det>>
    /\ UNCHANGED <<runVars, provVars, uniVars>>

\* get_default_universe is not called
UniIdle ==
    /\ live_cache_file = <<>>
    /\ snapshot_file = <<>>
    /\ seed_file = <<>>
    /\ default_universe_size = 300
    /\ gdu = <<>>

\* no provider call is modelled
ProvIdle ==
    /\ UniIdle
    /\ price_file = <<>>
    /\ gph = <<>>
    /\ today = 0
    /\ meta_file = <<>>
    /\ gtm = <<>>
    /\ cb = <<>>

RunIdle ==
    /\ tickers = <<>>
    /\ rpc = "idle"
    /\ max_workers = 0
    /\ task_ticker = <<>>
    /\ tpc = <<>>
    /\ prices = <<>>
    /\ market_cap_musd = <<>>
    /\ outcome = <<>>
    /\ collected = {}
    /\ declined_stocks = <<>>
    /\ declined_event_count = 0
    /\ recovered_event_count = 0
    /\ failed_tickers = <<>>
    /\ summary = None

DetNext == FirstRow \/ NextRow \/ Return \/ Analyze

InitDetector == DetInit /\ RunIdle /\ ProvIdle

SpecDetector == InitDetector /\ [][DetNext]_vars

----------------------------------------------------------------------------
(* Tickers and cache files (yfinance_provider.py).  A ticker is a sequence *)
(* of one-character strings.                                               *)

Chars == {"a", "b", "c", "m", "s", "A", "B", "C", "D", "E", "F", "G", "H", "I",
          "J", "M", "O", "P", "R", "S", ".", "-", "/", "_", "^", " "}

\* code points, for the ordering of strings
Ord(c) ==
    CASE c = " " -> 32 [] c = "-" -> 45 [] c = "." -> 46 [] c = "/" -> 47
      [] c = "A" -> 65 [] c = "B" -> 66 [] c = "C" -> 67 [] c = "D" -> 68
      [] c = "E" -> 69 [] c = "F" -> 70 [] c = "G" -> 71 [] c = "H" -> 72
      [] c = "I" -> 73 [] c = "J" -> 74
      [] c = "M" -> 77 [] c = "O" -> 79 [] c = "P" -> 80 [] c = "R" -> 82
      [] c = "S" -> 83 [] c = "^" -> 94 [] c = "_" -> 95
      [] c = "a" -> 97 [] c = "b" -> 98 [] c = "c" -> 99
      [] c = "m" -> 109 [] c = "s" -> 115

\* str.upper, one character
UpperChar(c) ==
    CASE c = "a" -> "A" [] c = "b" -> "B" [] c = "c" -> "C"
      [] c = "m" -> "M" [] c = "s" -> "S" [] OTHER -> c

\* str.strip
RECURSIVE LStrip(_)
LStrip(t) == IF t # <<>> /\ Head(t) = " " THEN LStrip(Tail(t)) ELSE t
RECURSIVE RStrip(_)
RStrip(t) ==
    IF t # <<>> /\ t[Len(t)] = " " THEN RStrip(SubSeq(t, 1, Len(t) - 1)) ELSE t
Strip(t) == RStrip(LStrip(t))

Upper(t) == [i \in 1..Len(t) |-> UpperChar(t[i])]
ReplaceChar(t, from, to) == [i \in 1..Len(t) |-> IF t[i] = from THEN to ELSE t[i]]

\* LEGACY_TICKER_MAP.get(normalized, normalized)
LegacyTicker(t) == IF t = <<"A", "B", "C">> THEN <<"C", "O", "R">> ELSE t

\* _normalize_ticker
NormalizeTicker(ticker) == LegacyTicker(ReplaceChar(Upper(Strip(ticker)), ".", "-"))

\* _safe_file_name
SafeFileName(ticker) == ReplaceChar(ticker, "/", "_")

\* _price_cache_path, _meta_cache_path
PriceCachePath(ticker) == [dir |-> "prices", file |-> SafeFileName(ticker), ext |-> "csv"]
MetaCachePath(ticker) == [dir |-> "meta", file |-> SafeFileName(ticker), ext |-> "json"]

\* the benchmark of _compute_beta
Benchmark == <<"^", "G", "S", "P", "C">>

----------------------------------------------------------------------------
(* Claims about the detector and the representative event *)

Last(seq) == seq[Len(seq)]

\* C1: the events never overlap: each event's trough_date is strictly
\* before the next event's peak_date.
C1_EventsNeverOverlap ==
    \A i \in 1..(Len(det.events) - 1) :
        det.events[i].trough_date < det.events[i + 1].peak_date

C1_Witness ==
    /\ dpc = "returned"
    /\ Len(det.events) >= 2

\* C6: every emitted event has peak_price >= trough_price, a decline_pct
\* equal to (peak_price - trough_price) / peak_price * 100, strictly
\* positive and at least threshold_pct.
C6_EventPricesAndDecline ==
    \A i \in 1..Len(det.events) :
        LET e == det.events[i] IN
        /\ e.peak_price >= e.trough_price
        /\ RatEq(e.decline_pct, Rat((e.peak_price - e.trough_price) * 100, e.peak_price))
        /\ RatGT(e.decline_pct, Rat(0, 1))
        /\ RatGE(e.decline_pct, threshold_pct)

\* an event whose decline is exactly the threshold, and one above it
C6_Witness ==
    /\ dpc = "returned"
    /\ \E i \in 1..Len(det.events) : RatEq(det.events[i].decline_pct, threshold_pct)
    /\ \E i \in 1..Len(det.events) : RatGT(det.events[i].decline_pct, threshold_pct)

\* C7: every event has peak_date <= trough_date; a recovered event has
\* trough_date < recovery_date, recovery_price >= peak_price and
\* recovery_days = recovery_date - trough_date >= 0; an unrecovered event
\* has no recovery_date, recovery_price or recovery_days.
C7_EventDatesAndRecovery ==
    \A i \in 1..Len(det.events) :
        LET e == det.events[i] IN
        /\ e.peak_date <= e.trough_date
        /\ e.recovered =>
             /\ ~IsNone(e.recovery_date)
             /\ ~IsNone(e.recovery_price)
             /\ ~IsNone(e.recovery_days)
             /\ e.trough_date < Get(e.recovery_date)
             /\ Get(e.recovery_price) >= e.peak_price
             /\ Get(e.recovery_days) = Get(e.recovery_date) - e.trough_date
             /\ Get(e.recovery_days) >= 0
        /\ ~e.recovered =>
             /\ IsNone(e.recovery_date)
             /\ IsNone(e.recovery_price)
             /\ IsNone(e.recovery_days)

\* a recovery several days after the trough, followed by an open event
C7_Witness ==
    /\ dpc = "returned"
    /\ Len(det.events) = 2
    /\ det.events[1].recovered
    /\ Get(det.events[1].recovery_days) > 1
    /\ ~det.events[2].recovered

\* C8: when the series ends in the in_drawdown state exactly one
\* unrecovered event is emitted, built from the recorded event peak and
\* trigger trough without recovery fields; it is the last element, and
\* every other event of the returned list is recovered.
C8_FinalUnrecoveredEvent ==
    dpc \in {"returned", "analyzed"} =>
        /\ \A i \in 1..(Len(det.events) - 1) : det.events[i].recovered
        /\ det.state = "in_drawdown" =>
             /\ det.events # <<>>
             /\ ~Last(det.events).recovered
             /\ Last(det.events).peak_price = det.event_peak_price
             /\ Last(det.events).peak_date = det.event_peak_date
             /\ Last(det.events).trough_price = det.trigger_price
             /\ Last(det.events).trough_date = det.trigger_date
             /\ IsNone(Last(det.events).recovery_date)
             /\ IsNone(Last(det.events).recovery_price)
             /\ IsNone(Last(det.events).recovery_days)
        /\ det.state = "tracking_peak" =>
             \A i \in 1..Len(det.events) : det.events[i].recovered

\* the series ends in a drawdown that follows a recovered event
C8_Witness ==
    /\ dpc = "returned"
    /\ det.state = "in_drawdown"
    /\ Len(det.events) = 2

\* the scenario of the specification: (day0 high=100), (day1 low=79),
\* (day2 high=101); the fields it leaves open range over the model's
\* prices, the day1 high not exceeding the day0 high
ScenarioFrames ==
    {<<[date |-> 0, High |-> 100, Low |-> l0],
       [date |-> 1, High |-> h1, Low |-> 79],
       [date |-> 2, High |-> 101, Low |-> l2]>> :
        l0 \in {l \in Prices : l <= 100},
        h1 \in {h \in Prices : h <= 100},
        l2 \in Prices}

ScenarioEvent ==
    [peak_date |-> 0, trough_date |-> 1, decline_pct |-> Rat(2100, 100),
     peak_price |-> 100, trough_price |-> 79, recovered |-> TRUE,
     recovery_date |-> Some(2), recovery_price |-> Some(101),
     recovery_days |-> Some(1)]

ScenarioYieldsOneEvent ==
    \A f \in ScenarioFrames :
        FindQualifyingEvents(f, Rat(20, 1)) = <<ScenarioEvent>>

\* C9: in the in_drawdown state a row closes the event as recovered
\* exactly when its date is strictly after the trough date and its high is
\* >= the event peak price (so the first such row closes it), the recovery
\* date and price being those of that row; the row that opens the drawdown
\* does not close it; the scenario (100, 79, 101; threshold 20) yields one
\* event with decline_pct 21, recovered, recovery_days 1.
C9_RecoveryAtFirstQualifyingRow ==
    [][/\ ScenarioYieldsOneEvent
       /\ (dpc = "loop" /\ dpc' = "loop" /\ det.state = "in_drawdown") =>
            IF row'.date > det.trigger_date /\ row'.High >= det.event_peak_price
            THEN /\ det'.state = "tracking_peak"
                 /\ Len(det'.events) = Len(det.events) + 1
                 /\ SubSeq(det'.events, 1, Len(det.events)) = det.events
                 /\ Last(det'.events).recovered
                 /\ Last(det'.events).recovery_date = Some(row'.date)
                 /\ Last(det'.events).recovery_price = Some(row'.High)
                 /\ Last(det'.events).trough_date = det.trigger_date
                 /\ Last(det'.events).peak_price = det.event_peak_price
            ELSE /\ det'.state = "in_drawdown"
                 /\ det'.events = det.events
       /\ (dpc = "loop" /\ dpc' = "loop" /\ det.state = "tracking_peak") =>
            det'.events = det.events
      ]_vars

\* the scenario's outcome, reached by feeding its three rows
C9_Witness ==
    /\ dpc = "returned"
    /\ idx = 3
    /\ RatEq(threshold_pct, Rat(20, 1))
    /\ row.High = 101
    /\ det.events = <<ScenarioEvent>>

----------------------------------------------------------------------------
(* BluffAnalysisService.run: inputs of the model *)

RunTickers == {<<"A", "B", "C">>, <<"C", "O", "R">>, <<"M", "S">>}
TickerLists == UNION {[1..n -> RunTickers] : n \in 0..MaxTickers}

\* the arguments of run
RunParams == [decline_threshold_pct |-> Rat(20, 1), min_market_cap_musd |-> 100]

Row(d, h, l) == [date |-> d, High |-> h, Low |-> l]
FrameEmpty == <<>>
FrameOneRow == <<Row(0, 100, 90)>>
FrameRecovered == <<Row(0, 100, 100), Row(1, 90, 79), Row(2, 101, 101)>>
FrameDeep == <<Row(0, 101, 100), Row(1, 90, 79)>>
FrameFlat == <<Row(0, 100, 100), Row(1, 100, 90)>>
FrameTwoEvents == <<Row(0, 100, 100), Row(1, 90, 79), Row(4, 101, 101), Row(5, 90, 79)>>
\* what get_price_history may return
Frames == {FrameEmpty, FrameOneRow, FrameRecovered, FrameDeep, FrameFlat,
           FrameTwoEvents}
\* what get_ticker_meta may return
Caps == {None, Some(50), Some(100)}
RunBetas == {Rat(1, 1), Rat(2, 1)}
\* os.cpu_count(), 0 standing for None
CpuCounts == {0, 1, 2}

----------------------------------------------------------------------------
(* BluffAnalysisService._analyze_ticker: what a task returns *)

FailedOutcome(ticker, how) == [kind |-> "failed", ticker |-> ticker, logged |-> how]
ExcludedOutcome == [kind |-> "none"]
StockOutcome(s, n, r) == [kind |-> "stock", stock |-> s, declined |-> n, recovered |-> r]

\* mutant: an unknown market cap is filtered out like a small one
AfterMeta_UnknownCapExcluded(ticker, frame, cap, b, detector_raises) ==
    IF IsNone(cap) \/ Get(cap) < RunParams.min_market_cap_musd
    THEN ExcludedOutcome
    ELSE IF detector_raises THEN FailedOutcome(ticker, "exception")
    ELSE LET threshold == Threshold(RunParams.decline_threshold_pct, b)
             events == FindQualifyingEvents(frame, threshold)
         IN  IF events = <<>> THEN ExcludedOutcome
             ELSE StockOutcome(BuildStock(ticker, events, threshold, b, cap),
                               Len(events), Len(RecoveredEvents(events)))

\* mutant: a ticker without qualifying event is reported as failed
AfterMeta_NoEventFailed(ticker, frame, cap, b, detector_raises) ==
    IF ~IsNone(cap) /\ Get(cap) < RunParams.min_market_cap_musd
    THEN ExcludedOutcome
    ELSE IF detector_raises THEN FailedOutcome(ticker, "exception")
    ELSE LET threshold == Threshold(RunParams.decline_threshold_pct, b)
             events == FindQualifyingEvents(frame, threshold)
         IN  IF events = <<>> THEN FailedOutcome(ticker, "warning")
             ELSE StockOutcome(BuildStock(ticker, events, threshold, b, cap),
                               Len(events), Len(RecoveredEvents(events)))

\* lines 187-230, after get_ticker_meta: the cap filter, the threshold, the
\* detector (which returns or raises), the stock
AfterMeta(ticker, frame, cap, b, detector_raises) ==
    IF ~IsNone(cap) /\ Get(cap) < RunParams.min_market_cap_musd
    THEN ExcludedOutcome
    ELSE IF detector_raises THEN FailedOutcome(ticker, "exception")
    ELSE LET threshold == Threshold(RunParams.decline_threshold_pct, b)
             events == FindQualifyingEvents(frame, threshold)
         IN  IF events = <<>> THEN ExcludedOutcome
             ELSE StockOutcome(BuildStock(ticker, events, threshold, b, cap),
                               Len(events), Len(RecoveredEvents(events)))

\* what the provider and the detector do for one task
Envs == [price_raises : BOOLEAN, frame : Frames, meta_raises : BOOLEAN,
         cap : Caps, beta : RunBetas, detector_raises : BOOLEAN]

\* mutant: only an empty history is unusable, one bar goes on to the meta
AnalyzeTicker_OneBarUsable(ticker, env) ==
    IF env.price_raises THEN FailedOutcome(ticker, "exception")
    ELSE IF Len(env.frame) < 1 THEN FailedOutcome(ticker, "warning")
    ELSE IF env.meta_raises THEN FailedOutcome(ticker, "exception")
    ELSE AfterMeta(ticker, env.frame, env.cap, env.beta, env.detector_raises)

\* _analyze_ticker as a whole: try ... except Exception: return ticker
AnalyzeTicker(ticker, env) ==
    IF env.price_raises THEN FailedOutcome(ticker, "exception")
    ELSE IF Len(env.frame) < 2 THEN FailedOutcome(ticker, "warning")
    ELSE IF env.meta_raises THEN FailedOutcome(ticker, "exception")
    ELSE AfterMeta(ticker, env.frame, env.cap, env.beta, env.detector_raises)

\* every result a task of a ticker can return
AnalyzeResults == [t \in RunTickers |-> {AnalyzeTicker(t, env) : env \in Envs}]

----------------------------------------------------------------------------
(* BluffAnalysisService.run: the pool, the collection loop, the summary *)

Min2(a, b) == IF a <= b THEN a ELSE b
Max2(a, b) == IF a >= b THEN a ELSE b

\* min(16, max(1, (os.cpu_count() or 4) * 4), max(1, len(tickers)))
MaxWorkers(cpus, n) ==
    Min2(16, Min2(Max2(1, (IF cpus = 0 THEN 4 ELSE cpus) * 4), Max2(1, n)))

\* the ticker each submitted task is bound to
SubmitTickers(list) == [i \in 1..Len(list) |-> list[i]]

Accumulators(ds, dc, rc, ft) ==
    [declined_stocks |-> ds, declined_event_count |-> dc,
     recovered_event_count |-> rc, failed_tickers |-> ft]

\* mutant: a failed ticker is skipped without being recorded
CollectOutcome_FailedSkipped(acc, o) ==
    CASE o.kind = "failed" -> acc
      [] o.kind = "none" -> acc
      [] o.kind = "stock" ->
           [acc EXCEPT !.declined_stocks = Append(@, o.stock),
                       !.declined_event_count = @ + o.declined,
                       !.recovered_event_count = @ + o.recovered]

\* mutant: one event is counted per stock, the representative one
CollectOutcome_RepresentativeOnly(acc, o) ==
    CASE o.kind = "failed" -> [acc EXCEPT !.failed_tickers = Append(@, o.ticker)]
      [] o.kind = "none" -> acc
      [] o.kind = "stock" ->
           [acc EXCEPT !.declined_stocks = Append(@, o.stock),
                       !.declined_event_count = @ + 1,
                       !.recovered_event_count = @ + (IF o.stock.recovered THEN 1 ELSE 0)]

\* the body of `for future in as_completed(future_map)`
CollectOutcome(acc, o) ==
    CASE o.kind = "failed" -> [acc EXCEPT !.failed_tickers = Append(@, o.ticker)]
      [] o.kind = "none" -> acc
      [] o.kind = "stock" ->
           [acc EXCEPT !.declined_stocks = Append(@, o.stock),
                       !.declined_event_count = @ + o.declined,
                       !.recovered_event_count = @ + o.recovered]

\* mutant: the sort is ascending
RECURSIVE InsertByDecline_Ascending(_, _)
InsertByDecline_Ascending(sorted, x) ==
    IF sorted = <<>> THEN <<x>>
    ELSE IF Head(sorted).decline_pct <= x.decline_pct
         THEN <<Head(sorted)>> \o InsertByDecline_Ascending(Tail(sorted), x)
         ELSE <<x>> \o sorted

\* list.sort(key=decline_pct, reverse=True): stable, descending
RECURSIVE InsertByDecline(_, _)
InsertByDecline(sorted, x) ==
    IF sorted = <<>> THEN <<x>>
    ELSE IF Head(sorted).decline_pct >= x.decline_pct
         THEN <<Head(sorted)>> \o InsertByDecline(Tail(sorted), x)
         ELSE <<x>> \o sorted
RECURSIVE SortByDecline(_)
SortByDecline(seq) ==
    IF seq = <<>> THEN <<>>
    ELSE InsertByDecline(SortByDecline(SubSeq(seq, 1, Len(seq) - 1)), seq[Len(seq)])

\* str < str
RECURSIVE StrLess(_, _)
StrLess(a, b) ==
    IF b = <<>> THEN FALSE
    ELSE IF a = <<>> THEN TRUE
    ELSE IF Ord(Head(a)) # Ord(Head(b)) THEN Ord(Head(a)) < Ord(Head(b))
    ELSE StrLess(Tail(a), Tail(b))

\* sorted(set(...)) of strings
RECURSIVE SortedStrings(_)
SortedStrings(set) ==
    IF set = {} THEN <<>>
    ELSE LET least == CHOOSE x \in set : \A y \in set \ {x} : StrLess(x, y)
         IN  <<least>> \o SortedStrings(set \ {least})

Range(seq) == {seq[i] : i \in 1..Len(seq)}

\* mutant: the guard of _safe_ratio yields 1
SafeRatio_OneWhenEmpty(numerator, denominator) ==
    IF denominator <= 0 THEN Rat(1, 1) ELSE Rat(numerator, denominator)

\* _safe_ratio, then round(ratio * 100.0, 4)
SafeRatio(numerator, denominator) ==
    IF denominator <= 0 THEN Rat(0, 1) ELSE Rat(numerator, denominator)
RatePct(numerator, denominator) ==
    Round4(RatMul(SafeRatio(numerator, denominator), Rat(100, 1)))

\* sorted ascending, as np.percentile orders its input
RECURSIVE InsertAscending(_, _)
InsertAscending(sorted, x) ==
    IF sorted = <<>> THEN <<x>>
    ELSE IF Head(sorted) <= x
         THEN <<Head(sorted)>> \o InsertAscending(Tail(sorted), x)
         ELSE <<x>> \o sorted
RECURSIVE SortAscending(_)
SortAscending(seq) ==
    IF seq = <<>> THEN <<>>
    ELSE InsertAscending(SortAscending(Tail(seq)), Head(seq))

\* mutant: the values are interpolated in the order given, not sorted
Percentile_Unsorted(values, k) ==
    LET v == values
        pos4 == k * (Len(v) - 1)
        lo == pos4 \div 4
        frac4 == pos4 % 4
        hi == IF lo + 2 <= Len(v) THEN v[lo + 2] ELSE v[lo + 1]
    IN  Round4(Rat(4 * v[lo + 1] + frac4 * (hi - v[lo + 1]), 4))

\* np.percentile(arr, 25 * k), linear interpolation, rounded to 4 places
Percentile(values, k) ==
    LET v == SortAscending(values)
        pos4 == k * (Len(v) - 1)
        lo == pos4 \div 4
        frac4 == pos4 % 4
        hi == IF lo + 2 <= Len(v) THEN v[lo + 2] ELSE v[lo + 1]
    IN  Round4(Rat(4 * v[lo + 1] + frac4 * (hi - v[lo + 1]), 4))

\* _distribution
Distribution(values) ==
    IF values = <<>> THEN [p25 |-> None, median |-> None, p75 |-> None]
    ELSE [p25 |-> Some(Percentile(values, 1)),
          median |-> Some(Percentile(values, 2)),
          p75 |-> Some(Percentile(values, 3))]

\* lines 136-170: the aggregation into the AnalysisSummary
BuildSummary(list, acc) ==
    LET sorted == SortByDecline(acc.declined_stocks)
        recovered_stocks == SelectSeq(sorted, LAMBDA item : item.recovered)
        with_days == SelectSeq(recovered_stocks, LAMBDA item : ~IsNone(item.recovery_days))
        recovery_days_values == [i \in 1..Len(with_days) |-> Get(with_days[i].recovery_days)]
    IN  [evaluated_ticker_count |-> Len(list),
         declined_stock_count |-> Len(sorted),
         recovered_stock_count |-> Len(recovered_stocks),
         stock_bluff_rate_pct |-> RatePct(Len(recovered_stocks), Len(sorted)),
         declined_event_count |-> acc.declined_event_count,
         recovered_event_count |-> acc.recovered_event_count,
         event_bluff_rate_pct |-> RatePct(acc.recovered_event_count, acc.declined_event_count),
         recovery_days_distribution |-> Distribution(recovery_days_values),
         failed_ticker_count |-> Len(acc.failed_tickers),
         failed_tickers |-> SortedStrings(Range(acc.failed_tickers)),
         declined_stocks |-> sorted,
         recovered_stocks |-> recovered_stocks]

----------------------------------------------------------------------------
(* Specification SpecRun: one call of run, its tasks interleaved *)

\* the futures of future_map
Tasks == DOMAIN tpc
Running(i) == tpc[i] \in {"price", "meta", "beta_stock", "beta_market"}

DetIdle ==
    /\ dpc = "idle"
    /\ threshold_pct = Rat(0, 1)
    /\ decline_threshold_pct = Rat(0, 1)
    /\ beta = Rat(0, 1)
    /\ idx = 0
    /\ row = NoRow
    /\ det = DetectInit(NoRow)
    /\ stock = None

InitRun ==
    /\ DetIdle
    /\ ProvIdle
    /\ tickers \in TickerLists
    /\ rpc = "init"
    /\ max_workers = 0
    /\ task_ticker = <<>>
    /\ tpc = <<>>
    /\ prices = <<>>
    /\ market_cap_musd = <<>>
    /\ outcome = <<>>
    /\ collected = {}
    /\ declined_stocks = <<>>
    /\ declined_event_count = 0
    /\ recovered_event_count = 0
    /\ failed_tickers = <<>>
    /\ summary = None

\* lines 101-113: the pool is created and one task per list element submitted
Submit ==
    /\ rpc = "init"
    /\ \E cpus \in CpuCounts : max_workers' = MaxWorkers(cpus, Len(tickers))
    /\ task_ticker' = SubmitTickers(tickers)
    /\ tpc' = [i \in 1..Len(tickers) |-> "queued"]
    /\ prices' = [i \in 1..Len(tickers) |-> <<>>]
    /\ market_cap_musd' = [i \in 1..Len(tickers) |-> None]
    /\ outcome' = [i \in 1..Len(tickers) |-> None]
    /\ rpc' = "collecting"
    /\ UNCHANGED <<tickers, collected, declined_stocks, declined_event_count,
                   recovered_event_count, failed_tickers, summary>>
    /\ UNCHANGED <<detVars, provVars, uniVars>>

\* mutant: every submitted task gets a thread at once
StartTask_NoPoolLimit(i) ==
    /\ rpc = "collecting"
    /\ tpc[i] = "queued"
    /\ \A j \in 1..(i - 1) : tpc[j] # "queued"
    /\ tpc' = [tpc EXCEPT ![i] = "price"]
    /\ UNCHANGED <<tickers, rpc, max_workers, task_ticker, prices, market_cap_musd,
                   outcome, collected, declined_stocks, declined_event_count,
                   recovered_event_count, failed_tickers, summary>>
    /\ UNCHANGED <<detVars, provVars, uniVars>>

\* a free worker takes the oldest queued task and enters get_price_history
StartTask(i) ==
    /\ rpc = "collecting"
    /\ tpc[i] = "queued"
    /\ \A j \in 1..(i - 1) : tpc[j] # "queued"
    /\ Cardinality({j \in Tasks : Running(j)}) < max_workers
    /\ tpc' = [tpc EXCEPT ![i] = "price"]
    /\ UNCHANGED <<tickers, rpc, max_workers, task_ticker, prices, market_cap_musd,
                   outcome, collected, declined_stocks, declined_event_count,
                   recovered_event_count, failed_tickers, summary>>
    /\ UNCHANGED <<detVars, provVars, uniVars>>

\* _analyze_ticker returns: the future holds the result, the locals are gone
Finish(i, o) ==
    /\ outcome' = [outcome EXCEPT ![i] = Some(o)]
    /\ tpc' = [tpc EXCEPT ![i] = "finished"]
    /\ prices' = [prices EXCEPT ![i] = <<>>]
    /\ market_cap_musd' = [market_cap_musd EXCEPT ![i] = None]

\* lines 172-230: the task runs _analyze_ticker and returns
TaskReturn(i) ==
    /\ tpc[i] = "price"
    /\ \E o \in AnalyzeResults[task_ticker[i]] : Finish(i, o)
    /\ UNCHANGED <<tickers, rpc, max_workers, task_ticker,
                   collected, declined_stocks, declined_event_count,
                   recovered_event_count, failed_tickers, summary>>
    /\ UNCHANGED <<detVars, provVars, uniVars>>

\* lines 181-184: get_price_history returns a frame or raises
PriceReturn(i) ==
    /\ tpc[i] = "price"
    /\ \/ Finish(i, FailedOutcome(task_ticker[i], "exception"))
       \/ \E frame \in Frames :
            IF Len(frame) < 2
            THEN Finish(i, FailedOutcome(task_ticker[i], "warning"))
            ELSE /\ prices' = [prices EXCEPT ![i] = frame]
                 /\ tpc' = [tpc EXCEPT ![i] = "meta"]
                 /\ UNCHANGED <<outcome, market_cap_musd>>
    /\ UNCHANGED <<tickers, rpc, max_workers, task_ticker,
                   collected, declined_stocks, declined_event_count,
                   recovered_event_count, failed_tickers, summary>>
    /\ UNCHANGED <<detVars, provVars, uniVars>>

\* get_ticker_meta, lines 115-137: the meta cache is read and the market cap
\* settled; the cached beta is reused or _compute_beta entered; or it raises
MetaCacheRead(i) ==
    /\ tpc[i] = "meta"
    /\ \/ Finish(i, FailedOutcome(task_ticker[i], "exception"))
       \/ \E cap \in Caps, b \in RunBetas, detector_raises \in BOOLEAN :
            Finish(i, AfterMeta(task_ticker[i], prices[i], cap, b, detector_raises))
       \/ \E cap \in Caps :
            /\ market_cap_musd' = [market_cap_musd EXCEPT ![i] = cap]
            /\ tpc' = [tpc EXCEPT ![i] = "beta_stock"]
            /\ UNCHANGED <<outcome, prices>>
    /\ UNCHANGED <<tickers, rpc, max_workers, task_ticker,
                   collected, declined_stocks, declined_event_count,
                   recovered_event_count, failed_tickers, summary>>
    /\ UNCHANGED <<detVars, provVars, uniVars>>

\* _compute_beta, line 358: get_price_history of the ticker itself
BetaStockHistory(i) ==
    /\ tpc[i] = "beta_stock"
    /\ \/ Finish(i, FailedOutcome(task_ticker[i], "exception"))
       \/ /\ tpc' = [tpc EXCEPT ![i] = "beta_market"]
          /\ UNCHANGED <<outcome, prices, market_cap_musd>>
    /\ UNCHANGED <<tickers, rpc, max_workers, task_ticker,
                   collected, declined_stocks, declined_event_count,
                   recovered_event_count, failed_tickers, summary>>
    /\ UNCHANGED <<detVars, provVars, uniVars>>

\* _compute_beta, lines 359-388: get_price_history of the benchmark, the
\* beta, then the rest of get_ticker_meta and of _analyze_ticker
BetaMarketHistory(i) ==
    /\ tpc[i] = "beta_market"
    /\ \/ Finish(i, FailedOutcome(task_ticker[i], "exception"))
       \/ \E b \in RunBetas, detector_raises \in BOOLEAN :
            Finish(i, AfterMeta(task_ticker[i], prices[i], market_cap_musd[i], b,
                                detector_raises))
    /\ UNCHANGED <<tickers, rpc, max_workers, task_ticker,
                   collected, declined_stocks, declined_event_count,
                   recovered_event_count, failed_tickers, summary>>
    /\ UNCHANGED <<detVars, provVars, uniVars>>

\* lines 114-134: as_completed yields a finished future
Collect(i) ==
    /\ rpc = "collecting"
    /\ tpc[i] = "finished"
    /\ i \notin collected
    /\ LET acc == CollectOutcome(Accumulators(declined_stocks, declined_event_count,
                                              recovered_event_count, failed_tickers),
                                 Get(outcome[i]))
       IN  /\ declined_stocks' = acc.declined_stocks
           /\ declined_event_count' = acc.declined_event_count
           /\ recovered_event_count' = acc.recovered_event_count
           /\ failed_tickers' = acc.failed_tickers
    /\ collected' = collected \cup {i}
    /\ UNCHANGED <<tickers, rpc, max_workers, task_ticker, tpc, prices,
                   market_cap_musd, outcome, summary>>
    /\ UNCHANGED <<detVars, provVars, uniVars>>

\* as_completed is exhausted: every future has been yielded
AllCollected == rpc = "collecting" /\ collected = Tasks

\* lines 136-170: every future has been yielded; the summary is returned
Aggregate ==
    /\ AllCollected
    /\ LET sorted == BuildSummary(tickers,
                                  Accumulators(declined_stocks, declined_event_count,
                                               recovered_event_count, failed_tickers))
       IN  /\ summary' = Some(sorted)
           /\ declined_stocks' = sorted.declined_stocks
    /\ rpc' = "done"
    /\ UNCHANGED <<tickers, max_workers, task_ticker, tpc, prices, market_cap_musd,
                   outcome, collected, declined_event_count,
                   recovered_event_count, failed_tickers>>
    /\ UNCHANGED <<detVars, provVars, uniVars>>

RunNext ==
    \/ Submit
    \/ \E i \in Tasks : StartTask(i)
    \/ \E i \in Tasks : TaskReturn(i)
    \/ \E i \in Tasks : Collect(i)
    \/ Aggregate

SpecRun == InitRun /\ [][RunNext]_vars

----------------------------------------------------------------------------
(* Specification SpecTasks: the tasks of one call of run, each followed    *)
(* through its calls of the provider                                       *)

TasksNext ==
    \/ Submit
    \/ \E i \in Tasks : StartTask(i)
    \/ \E i \in Tasks : PriceReturn(i)
    \/ \E i \in Tasks : MetaCacheRead(i)
    \/ \E i \in Tasks : BetaStockHistory(i)
    \/ \E i \in Tasks : BetaMarketHistory(i)

SpecTasks == InitRun /\ [][TasksNext]_vars

----------------------------------------------------------------------------
(* Claims about run and its tasks *)

NoDuplicates(list) == \A i, j \in 1..Len(list) : i # j => list[i] # list[j]

OutcomeOf(i) == Get(outcome[i])
Raised(i) == OutcomeOf(i).kind = "failed" /\ OutcomeOf(i).logged = "exception"

RECURSIVE SumDeclined(_)
SumDeclined(S) ==
    IF S = {} THEN 0
    ELSE LET i == CHOOSE x \in S : TRUE
         IN  OutcomeOf(i).declined + SumDeclined(S \ {i})
RECURSIVE SumRecovered(_)
SumRecovered(S) ==
    IF S = {} THEN 0
    ELSE LET i == CHOOSE x \in S : TRUE
         IN  OutcomeOf(i).recovered + SumRecovered(S \ {i})

Occurrences(seq, x) == Cardinality({k \in 1..Len(seq) : seq[k] = x})

\* some step of run or of a task is possible: the submission, the return of
\* the summary once every future was yielded (Aggregate has no other guard),
\* a task starting, a finished task being yielded, or a running task
\* returning (whenever _analyze_ticker has a result for it)
RunCanProceed ==
    \/ ENABLED Submit
    \/ AllCollected
    \/ \E i \in Tasks :
         \/ ENABLED StartTask(i)
         \/ ENABLED Collect(i)
         \/ tpc[i] = "price" /\ AnalyzeResults[task_ticker[i]] # {}

\* C2: an exception of one ticker's analysis is caught at the ticker
\* boundary: run is never blocked and returns a summary; every raising
\* ticker is in failed_tickers; the stocks and the event counts are those
\* of the other tickers alone, as if the raising tickers were not in the list.
C2_ExceptionsIsolated ==
    /\ rpc # "done" => RunCanProceed
    /\ rpc = "done" =>
         /\ ~IsNone(summary)
         /\ LET sm == Get(summary)
                others == {i \in Tasks : ~Raised(i)}
                contributing == {i \in others : OutcomeOf(i).kind = "stock"}
            IN  /\ \A i \in Tasks \ others : tickers[i] \in Range(sm.failed_tickers)
                /\ Range(sm.failed_tickers) =
                       {tickers[i] : i \in {j \in Tasks : OutcomeOf(j).kind = "failed"}}
                /\ Len(sm.declined_stocks) = Cardinality(contributing)
                /\ \A i \in contributing :
                       Occurrences(sm.declined_stocks, OutcomeOf(i).stock) =
                       Cardinality({j \in contributing :
                                        OutcomeOf(j).stock = OutcomeOf(i).stock})
                /\ sm.declined_event_count = SumDeclined(contributing)
                /\ sm.recovered_event_count = SumRecovered(contributing)

\* a run returned with one ticker that raised and another that declined
C2_Witness ==
    /\ rpc = "done"
    /\ \E i, j \in Tasks :
         /\ Raised(i)
         /\ OutcomeOf(j).kind = "stock"
         /\ Get(summary).declined_stock_count = 1
         /\ Get(summary).failed_tickers = <<tickers[i]>>

\* the accumulators when the futures are yielded in submission order
RECURSIVE CollectInOrder(_, _)
CollectInOrder(i, acc) ==
    IF i > Len(tickers) THEN acc
    ELSE CollectInOrder(i + 1, CollectOutcome(acc, OutcomeOf(i)))

\* C3: for a fixed ticker list and fixed per-ticker outcomes every completion
\* order yields the same declined_stocks, recovered_stocks and
\* failed_tickers sequences: those of the completion in submission order
\* (stated for the lists without repeated tickers, where each ticker has one
\* outcome).
C3_CompletionOrderInvisible ==
    (rpc = "done" /\ NoDuplicates(tickers)) =>
        LET sm == Get(summary)
            ref == BuildSummary(tickers,
                                CollectInOrder(1, Accumulators(<<>>, 0, 0, <<>>)))
        IN  /\ sm.declined_stocks = ref.declined_stocks
            /\ sm.recovered_stocks = ref.recovered_stocks
            /\ sm.failed_tickers = ref.failed_tickers

\* the cache files a task has open at its current position
FilesInUse(i) ==
    CASE tpc[i] = "price" ->
           {PriceCachePath(NormalizeTicker(task_ticker[i]))}
      [] tpc[i] = "meta" ->
           {MetaCachePath(NormalizeTicker(task_ticker[i]))}
      [] tpc[i] = "beta_stock" ->
           {PriceCachePath(NormalizeTicker(NormalizeTicker(task_ticker[i])))}
      [] tpc[i] = "beta_market" ->
           {PriceCachePath(NormalizeTicker(Benchmark))}
      [] OTHER -> {}

\* C4: tasks of different tickers never have the same cache file open at
\* the same time.
C4_NoSharedCacheFile ==
    \A i, j \in Tasks :
        task_ticker[i] # task_ticker[j] => FilesInUse(i) \cap FilesInUse(j) = {}

\* C5: for any ticker list, no ticker is being analyzed by two tasks at the
\* same time.
C5_NoTickerInTwoTasks ==
    \A i, j \in Tasks :
        (i # j /\ Running(i) /\ Running(j)) => task_ticker[i] # task_ticker[j]

\* the summary is the aggregation of the tasks of S alone: their stocks,
\* their event counts, their failed tickers, the two rates
SummaryIsOfTasks(S) ==
    LET sm == Get(summary)
        contributing == {i \in S : OutcomeOf(i).kind = "stock"}
        recovering == {i \in contributing : OutcomeOf(i).stock.recovered}
    IN  /\ Len(sm.declined_stocks) = Cardinality(contributing)
        /\ \A i \in contributing :
               Occurrences(sm.declined_stocks, OutcomeOf(i).stock) =
               Cardinality({j \in contributing : OutcomeOf(j).stock = OutcomeOf(i).stock})
        /\ sm.declined_event_count = SumDeclined(contributing)
        /\ sm.recovered_event_count = SumRecovered(contributing)
        /\ sm.stock_bluff_rate_pct =
               RatePct(Cardinality(recovering), Cardinality(contributing))
        /\ sm.event_bluff_rate_pct =
               RatePct(SumRecovered(contributing), SumDeclined(contributing))

\* _analyze_ticker on a history of fewer than 2 bars returns the ticker with
\* a warning, whatever get_ticker_meta would have done (it is not called)
ShortHistoryReturnsTicker ==
    \A t \in RunTickers : \A env \in Envs :
        (~env.price_raises /\ Len(env.frame) < 2) =>
            AnalyzeTicker(t, env) = FailedOutcome(t, "warning")

\* the tasks that returned on the short-history path
ShortHistory == {i \in Tasks : OutcomeOf(i) = FailedOutcome(tickers[i], "warning")}

\* C11: a ticker with fewer than 2 bars (an empty history included) is
\* returned as failed before its meta is fetched; it is in failed_tickers and
\* the stocks, the event counts and both rates are those of the other tickers.
C11_ShortHistoryFailed ==
    /\ ShortHistoryReturnsTicker
    /\ rpc = "done" =>
         /\ \A i \in ShortHistory : tickers[i] \in Range(Get(summary).failed_tickers)
         /\ SummaryIsOfTasks(Tasks \ ShortHistory)

\* a run returned with a short-history ticker next to a declined one
C11_Witness ==
    /\ rpc = "done"
    /\ \E i \in ShortHistory : \E j \in Tasks :
         /\ OutcomeOf(j).kind = "stock"
         /\ Get(summary).failed_tickers = <<tickers[i]>>
         /\ Get(summary).declined_stock_count = 1

\* the tasks that returned None
Excluded == {i \in Tasks : OutcomeOf(i) = ExcludedOutcome}

\* the tickers of the tasks that returned a ticker
FailedTickersOf(S) == {tickers[i] : i \in {j \in S : OutcomeOf(j).kind = "failed"}}

\* _analyze_ticker returns None for a known cap below the minimum, whatever
\* the prices hold and the detector would do; with an unknown cap the
\* outcome is the detector's
CapFilter ==
    \A t \in RunTickers : \A env \in Envs :
        (~env.price_raises /\ Len(env.frame) >= 2 /\ ~env.meta_raises) =>
            LET events == FindQualifyingEvents(
                              env.frame, Threshold(RunParams.decline_threshold_pct, env.beta))
                out == AnalyzeTicker(t, env)
            IN  /\ (~IsNone(env.cap) /\ Get(env.cap) < RunParams.min_market_cap_musd)
                       => out = ExcludedOutcome
                /\ (IsNone(env.cap) /\ ~env.detector_raises /\ events # <<>>)
                       => /\ out.kind = "stock"
                          /\ IsNone(out.stock.market_cap_musd)
                          /\ out.declined = Len(events)

\* C12: a ticker with a known market cap strictly below min_market_cap_musd is
\* dropped (no stock, no failed ticker, no event counted) even if its prices
\* hold qualifying events; an unknown market cap never excludes a ticker.
C12_CapFilterExcludes ==
    /\ CapFilter
    /\ rpc = "done" =>
         /\ SummaryIsOfTasks(Tasks \ Excluded)
         /\ Range(Get(summary).failed_tickers) = FailedTickersOf(Tasks \ Excluded)
         /\ \A k \in 1..Len(Get(summary).declined_stocks) :
               LET cap == Get(summary).declined_stocks[k].market_cap_musd
               IN  IsNone(cap) \/ Get(cap) >= Round3Cap(RunParams.min_market_cap_musd)

\* a run returned with a dropped ticker next to a declined ticker of unknown
\* market cap
C12_Witness ==
    /\ rpc = "done"
    /\ Excluded # {}
    /\ Get(summary).failed_tickers = <<>>
    /\ Get(summary).declined_stock_count = 1
    /\ IsNone(Get(summary).declined_stocks[1].market_cap_musd)

\* _analyze_ticker returns None when the detector finds no event in a
\* history of at least 2 bars
NoEventReturnsNone ==
    \A t \in RunTickers : \A env \in Envs :
        (/\ ~env.price_raises /\ Len(env.frame) >= 2
         /\ ~env.meta_raises /\ ~env.detector_raises
         /\ FindQualifyingEvents(
                env.frame, Threshold(RunParams.decline_threshold_pct, env.beta)) = <<>>)
            => AnalyzeTicker(t, env) = ExcludedOutcome

\* C13: a ticker with at least 2 bars and no qualifying event is left out of
\* declined_stocks and is not added to failed_tickers.
C13_NoEventExcluded ==
    /\ NoEventReturnsNone
    /\ \A i \in Tasks :
         (i \in collected /\ ~IsNone(outcome[i]) /\ OutcomeOf(i) = ExcludedOutcome) =>
             /\ Len(declined_stocks) =
                    Cardinality({j \in collected : OutcomeOf(j).kind = "stock"})
             /\ Len(failed_tickers) =
                    Cardinality({j \in collected : OutcomeOf(j).kind = "failed"})

\* every task of a run returned None and the summary is empty
C13_Witness ==
    /\ rpc = "done"
    /\ Tasks # {}
    /\ Excluded = Tasks
    /\ Get(summary).declined_stocks = <<>>
    /\ Get(summary).failed_tickers = <<>>

\* C14 as stated: each rate is exactly 100 * recovered / declined, and 0 when
\* the denominator is 0.
C14_RatesExact ==
    rpc = "done" =>
        LET sm == Get(summary)
        IN  /\ IF sm.declined_stock_count = 0 THEN sm.stock_bluff_rate_pct = 0
               ELSE RatEq(Rat(sm.stock_bluff_rate_pct, 10000),
                          Rat(100 * sm.recovered_stock_count, sm.declined_stock_count))
            /\ IF sm.declined_event_count = 0 THEN sm.event_bluff_rate_pct = 0
               ELSE RatEq(Rat(sm.event_bluff_rate_pct, 10000),
                          Rat(100 * sm.recovered_event_count, sm.declined_event_count))

\* C14 amended: each rate is 100 * recovered / declined rounded to 4 decimal
\* places, and exactly 0 when the denominator is 0; run returns a summary
\* for the empty ticker list too.
C14_RatesRounded ==
    rpc = "done" =>
        LET sm == Get(summary)
        IN  /\ IF sm.declined_stock_count = 0 THEN sm.stock_bluff_rate_pct = 0
               ELSE sm.stock_bluff_rate_pct =
                      Round4(Rat(100 * sm.recovered_stock_count, sm.declined_stock_count))
            /\ IF sm.declined_event_count = 0 THEN sm.event_bluff_rate_pct = 0
               ELSE sm.event_bluff_rate_pct =
                      Round4(Rat(100 * sm.recovered_event_count, sm.declined_event_count))

\* a run returned with one of three events recovered: the rate 33.3333 is a
\* rounded value
C14_Witness ==
    /\ rpc = "done"
    /\ Get(summary).declined_event_count = 3
    /\ Get(summary).recovered_event_count = 1
    /\ Get(summary).event_bluff_rate_pct = 333333

\* the run of the empty ticker list returned, both rates 0
C14_EmptyListReturns ==
    /\ rpc = "done"
    /\ tickers = <<>>
    /\ Get(summary).stock_bluff_rate_pct = 0
    /\ Get(summary).event_bluff_rate_pct = 0

\* C15: declined_stocks is ordered by decline_pct non-increasing,
\* recovered_stocks is its sub-sequence of the recovered stocks in the same
\* order, and the two counts are the two lengths.
C15_SortedAndRecoveredSubsequence ==
    rpc = "done" =>
        LET sm == Get(summary)
        IN  /\ \A k \in 1..(Len(sm.declined_stocks) - 1) :
                   sm.declined_stocks[k].decline_pct >= sm.declined_stocks[k + 1].decline_pct
            /\ sm.recovered_stocks =
                   SelectSeq(sm.declined_stocks, LAMBDA item : item.recovered)
            /\ sm.declined_stock_count = Len(sm.declined_stocks)
            /\ sm.recovered_stock_count = Len(sm.recovered_stocks)

\* two stocks of different decline were collected smaller first, and the
\* smaller one is the recovered one
C15_Witness ==
    /\ rpc = "done"
    /\ Len(declined_stocks) = 2
    /\ Get(summary).declined_stocks[1].decline_pct > Get(summary).declined_stocks[2].decline_pct
    /\ ~Get(summary).declined_stocks[1].recovered
    /\ Get(summary).recovered_stocks = <<Get(summary).declined_stocks[2]>>

----------------------------------------------------------------------------
(* YFinanceMarketDataProvider: the price cache file as CSV text *)

\* a date is a day number of 2024: 1..31 is January, 32..60 February;
\* a price is a whole number of hundredths
Digits == <<"0", "1", "2", "3", "4", "5", "6", "7", "8", "9">>
DigitChar(n) == Digits[n + 1]
DigitVal(c) == (CHOOSE k \in 1..10 : Digits[k] = c) - 1
IsDigit(c) == \E k \in 1..10 : Digits[k] = c

\* str(int) and int(str) of a natural number
RECURSIVE FormatInt(_)
FormatInt(n) ==
    IF n < 10 THEN <<DigitChar(n)>>
    ELSE FormatInt(n \div 10) \o <<DigitChar(n % 10)>>
RECURSIVE ParseInt(_)
ParseInt(str) ==
    IF Len(str) = 1 THEN DigitVal(str[1])
    ELSE 10 * ParseInt(SubSeq(str, 1, Len(str) - 1)) + DigitVal(str[Len(str)])

Pad2(n) == <<DigitChar(n \div 10), DigitChar(n % 10)>>

\* to_csv of a Timestamp at midnight: YYYY-MM-DD
FormatDate(day) ==
    LET month == IF day <= 31 THEN 1 ELSE 2
        dom == IF day <= 31 THEN day ELSE day - 31
    IN  <<"2", "0", "2", "4", "-">> \o Pad2(month) \o <<"-">> \o Pad2(dom)

\* read_csv(parse_dates=["Date"]) of YYYY-MM-DD
ParseDate(str) ==
    LET month == ParseInt(SubSeq(str, 6, 7))
        dom == ParseInt(SubSeq(str, 9, 10))
    IN  (IF month = 1 THEN 0 ELSE 31) + dom

\* to_csv of a float: the shortest decimal that reads back as the float
FormatFloat(v) ==
    LET frac == v % 100
    IN  FormatInt(v \div 100) \o <<".">> \o
        (IF frac % 10 = 0 THEN <<DigitChar(frac \div 10)>> ELSE Pad2(frac))

\* read_csv of a decimal field
ParseFloat(str) ==
    LET dot == CHOOSE k \in 1..Len(str) : str[k] = "."
        whole == ParseInt(SubSeq(str, 1, dot - 1))
        digits == SubSeq(str, dot + 1, Len(str))
    IN  100 * whole + (IF Len(digits) = 1 THEN 10 * ParseInt(digits) ELSE ParseInt(digits))

\* a row of a price frame, indexed by its date
Bar(d, h, l, c) == [Date |-> d, High |-> h, Low |-> l, Close |-> c]

\* DataFrame.sort_index() on the Date index
RECURSIVE InsertByDate(_, _)
InsertByDate(sorted, x) ==
    IF sorted = <<>> THEN <<x>>
    ELSE IF Head(sorted).Date <= x.Date
         THEN <<Head(sorted)>> \o InsertByDate(Tail(sorted), x)
         ELSE <<x>> \o sorted
RECURSIVE SortIndex(_)
SortIndex(frame) ==
    IF frame = <<>> THEN <<>>
    ELSE InsertByDate(SortIndex(SubSeq(frame, 1, Len(frame) - 1)), frame[Len(frame)])

\* the empty frame, DataFrame(columns=["High", "Low", "Close"])
EmptyFrame == <<>>

\* mutant: the index is not written (to_csv(index=False) without reset_index)
WritePriceCache_IndexDropped(frame) ==
    <<<<"High", "Low", "Close">>>> \o
    [k \in 1..Len(frame) |->
        <<FormatFloat(frame[k].High), FormatFloat(frame[k].Low),
          FormatFloat(frame[k].Close)>>]

\* _write_price_cache: the header line, then one line per row
WritePriceCache(frame) ==
    <<<<"Date", "High", "Low", "Close">>>> \o
    [k \in 1..Len(frame) |->
        <<FormatDate(frame[k].Date), FormatFloat(frame[k].High),
          FormatFloat(frame[k].Low), FormatFloat(frame[k].Close)>>]

\* the position of a column in the header line
Column(header, name) == CHOOSE k \in 1..Len(header) : header[k] = name

\* _read_price_cache: no file, no row or an unreadable file give the empty
\* frame; otherwise the rows sorted by Date with High, Low, Close
ReadPriceCache(file) ==
    IF IsNone(file) THEN EmptyFrame
    ELSE LET lines == Get(file)
             header == lines[1]
         IN  IF ~\A name \in {"Date", "High", "Low", "Close"} :
                    \E k \in 1..Len(header) : header[k] = name
             THEN EmptyFrame
             ELSE IF Len(lines) = 1 THEN EmptyFrame
             ELSE SortIndex([k \in 1..(Len(lines) - 1) |->
                     Bar(ParseDate(lines[k + 1][Column(header, "Date")]),
                         ParseFloat(lines[k + 1][Column(header, "High")]),
                         ParseFloat(lines[k + 1][Column(header, "Low")]),
                         ParseFloat(lines[k + 1][Column(header, "Close")]))])

RECURSIVE MinDate(_)
MinDate(frame) ==
    IF Len(frame) = 1 THEN frame[1].Date
    ELSE LET rest == MinDate(Tail(frame))
         IN  IF frame[1].Date <= rest THEN frame[1].Date ELSE rest
RECURSIVE MaxDate(_)
MaxDate(frame) ==
    IF Len(frame) = 1 THEN frame[1].Date
    ELSE LET rest == MaxDate(Tail(frame))
         IN  IF frame[1].Date >= rest THEN frame[1].Date ELSE rest

\* mutant: the first cached date is not compared with start
CacheCovers_EndOnly(frame, start_date, end_date) ==
    IF frame = EmptyFrame THEN FALSE
    ELSE MaxDate(frame) >= end_date - 2

\* mutant: no trailing grace for non-trading days
CacheCovers_NoGrace(frame, start_date, end_date) ==
    IF frame = EmptyFrame THEN FALSE
    ELSE MinDate(frame) <= start_date /\ MaxDate(frame) >= end_date

\* _cache_covers
CacheCovers(frame, start_date, end_date) ==
    IF frame = EmptyFrame THEN FALSE
    ELSE MinDate(frame) <= start_date /\ MaxDate(frame) >= end_date - 2

\* _slice_prices
SlicePrices(frame, start_date, end_date) ==
    SelectSeq(frame, LAMBDA bar : bar.Date >= start_date /\ bar.Date <= end_date)

\* a row of the frame yf.download returns; NaN is None
RawBar(d, h, l, c) == [Date |-> d, High |-> h, Low |-> l, Close |-> c]
NaN == None

\* what yf.download may do: raise, return an empty frame, return a frame
\* lacking a column, return rows (unsorted, with NaN)
UpRaises == [kind |-> "raise", columns |-> {}, rows |-> <<>>]
UpEmpty == [kind |-> "frame", columns |-> {"Open", "High", "Low", "Close"}, rows |-> <<>>]
UpNoClose ==
    [kind |-> "frame", columns |-> {"Open", "High", "Low"},
     rows |-> <<RawBar(30, Some(10000), Some(9050), NaN)>>]
UpSorted ==
    [kind |-> "frame", columns |-> {"Open", "High", "Low", "Close"},
     rows |-> <<RawBar(30, Some(10000), Some(9050), Some(9505)),
                RawBar(31, Some(10125), Some(10000), Some(10100)),
                RawBar(33, Some(9050), Some(7900), Some(8000))>>]
UpUnsorted ==
    [kind |-> "frame", columns |-> {"Open", "High", "Low", "Close"},
     rows |-> <<RawBar(34, Some(10007), Some(9050), Some(9500)),
                RawBar(29, Some(10000), Some(10000), Some(10000)),
                RawBar(32, Some(12010), Some(10125), Some(12000))>>]
UpWithNaN ==
    [kind |-> "frame", columns |-> {"Open", "High", "Low", "Close"},
     rows |-> <<RawBar(31, Some(10000), NaN, Some(10000)),
                RawBar(32, Some(10125), Some(7900), Some(9050)),
                RawBar(35, Some(9050), Some(9050), Some(9050))>>]
UpAllNaN ==
    [kind |-> "frame", columns |-> {"Open", "High", "Low", "Close"},
     rows |-> <<RawBar(30, NaN, NaN, NaN), RawBar(31, Some(10000), Some(9050), NaN)>>]
Upstreams == {UpRaises, UpEmpty, UpNoClose, UpSorted, UpUnsorted, UpWithNaN, UpAllNaN}

\* frame[["High", "Low", "Close"]].dropna()
DropNa(rows) ==
    LET kept == SelectSeq(rows, LAMBDA r : ~IsNone(r.High) /\ ~IsNone(r.Low) /\ ~IsNone(r.Close))
    IN  [k \in 1..Len(kept) |->
            Bar(kept[k].Date, Get(kept[k].High), Get(kept[k].Low), Get(kept[k].Close))]

\* mutant: only High and Low are required, a missing Close is read from High
FetchPriceHistory_CloseOptional(up) ==
    IF up.kind = "raise" THEN EmptyFrame
    ELSE IF up.rows = <<>> THEN EmptyFrame
    ELSE IF ~({"High", "Low"} \subseteq up.columns) THEN EmptyFrame
    ELSE SortIndex(DropNa([k \in 1..Len(up.rows) |->
             IF "Close" \in up.columns THEN up.rows[k]
             ELSE [up.rows[k] EXCEPT !.Close = up.rows[k].High]]))

\* _fetch_price_history
FetchPriceHistory(up) ==
    IF up.kind = "raise" THEN EmptyFrame
    ELSE IF up.rows = <<>> THEN EmptyFrame
    ELSE IF ~({"High", "Low", "Close"} \subseteq up.columns) THEN EmptyFrame
    ELSE SortIndex(DropNa(up.rows))

\* the arguments of get_price_history
StartDates == 29..31
EndDates == 33..36

\* get_price_history
\* mutant: the lines are appended to the file that is there
OverwriteFile_Append(old, lines) ==
    IF IsNone(old) THEN Some(lines) ELSE Some(Get(old) \o Tail(lines))

\* frame.to_csv(path): the file is opened for writing and truncated
OverwriteFile(old, lines) == Some(lines)

GetPriceHistory(start_date, end_date, up) ==
    LET cached == ReadPriceCache(price_file)
    IN  /\ IF cached # EmptyFrame /\ CacheCovers(cached, start_date, end_date)
           THEN /\ gph' = Some([start_date |-> start_date, end_date |-> end_date,
                                cached |-> cached, upstream |-> None, fetched |-> None,
                                result |-> SlicePrices(cached, start_date, end_date)])
                /\ price_file' = price_file
           ELSE LET fetched == FetchPriceHistory(up)
                IN  /\ gph' = Some([start_date |-> start_date, end_date |-> end_date,
                                    cached |-> cached, upstream |-> Some(up),
                                    fetched |-> Some(fetched),
                                    result |-> IF fetched = EmptyFrame THEN EmptyFrame
                                               ELSE SlicePrices(fetched, start_date, end_date)])
                    /\ price_file' = IF fetched = EmptyFrame THEN price_file
                                     ELSE OverwriteFile(price_file, WritePriceCache(fetched))
        /\ UNCHANGED <<today, meta_file, gtm, cb>>
        /\ UNCHANGED <<detVars, runVars, uniVars>>

\* the detector and run are not called
OthersIdle == DetIdle /\ RunIdle

InitPrices ==
    /\ OthersIdle
    /\ ProvIdle

PricesNext ==
    \E start_date \in StartDates : \E end_date \in EndDates : \E up \in Upstreams :
        GetPriceHistory(start_date, end_date, up)

SpecPrices == InitPrices /\ [][PricesNext]_vars

\* the cached series is not empty, starts on or before start and ends no
\* more than 2 days before end (the series is kept sorted by date)
CoveringSeries(series, start_date, end_date) ==
    /\ series # <<>>
    /\ series[1].Date <= start_date
    /\ series[Len(series)].Date >= end_date - 2

\* C16: whenever the cached series is non-empty, starts on or before start
\* and ends on or after end minus 2 days, get_price_history serves from it:
\* no upstream fetch, the cache file as it was; and every bar it returns, in
\* any case, is dated within [start, end].
C16_ServedFromCoveringCache ==
    [][LET call == Get(gph')
       IN  /\ CoveringSeries(ReadPriceCache(price_file), call.start_date, call.end_date)
                => /\ IsNone(call.upstream)
                   /\ price_file' = price_file
                   /\ call.result =
                         SelectSeq(ReadPriceCache(price_file),
                                   LAMBDA bar : call.start_date <= bar.Date
                                                /\ bar.Date <= call.end_date)
           /\ \A k \in 1..Len(call.result) :
                 call.start_date <= call.result[k].Date
                 /\ call.result[k].Date <= call.end_date]_vars

\* a call was served from a series that ends 2 days before end, and a bar
\* of the series was left out of the result
C16_Witness ==
    /\ ~IsNone(gph)
    /\ IsNone(Get(gph).upstream)
    /\ Get(gph).cached[Len(Get(gph).cached)].Date = Get(gph).end_date - 2
    /\ Get(gph).result # <<>>
    /\ Len(Get(gph).result) < Len(Get(gph).cached)

\* the upstream fetch gave no usable row: it raised, returned nothing,
\* lacked a column, or every row had a NaN
NoUsableRows(up) ==
    \/ up.kind = "raise"
    \/ up.rows = <<>>
    \/ \E name \in {"High", "Low", "Close"} : name \notin up.columns
    \/ \A k \in 1..Len(up.rows) :
          IsNone(up.rows[k].High) \/ IsNone(up.rows[k].Low) \/ IsNone(up.rows[k].Close)

\* C17: when the upstream fetch yields no usable rows, get_price_history
\* returns the empty series and leaves the price cache file as it was.
C17_FailedFetchReturnsEmpty ==
    [][LET call == Get(gph')
       IN  (~IsNone(call.upstream) /\ NoUsableRows(Get(call.upstream)))
               => /\ call.result = EmptyFrame
                  /\ price_file' = price_file]_vars

\* a fetch over a stale cache file lacked the Close column: the call returned
\* the empty series and the file still holds the stale series
C17_Witness ==
    /\ ~IsNone(gph)
    /\ Get(gph).upstream = Some(UpNoClose)
    /\ Get(gph).result = EmptyFrame
    /\ Get(gph).cached # EmptyFrame
    /\ ReadPriceCache(price_file) = Get(gph).cached

\* C18: the series read back from the price cache is the series that was
\* written: the same dates in the same order with the same High, Low and
\* Close.
C18_PriceCacheRoundTrip ==
    (~IsNone(gph) /\ ~IsNone(Get(gph).fetched) /\ Get(Get(gph).fetched) # EmptyFrame)
        => ReadPriceCache(price_file) = Get(Get(gph).fetched)

\* a fetched series of three bars, sorted out of an unsorted download, was
\* written and reads back
C18_Witness ==
    /\ ~IsNone(gph)
    /\ Get(gph).upstream = Some(UpUnsorted)
    /\ Len(Get(Get(gph).fetched)) = 3
    /\ ~IsNone(price_file)
    /\ Len(Get(price_file)) = 4
    /\ ReadPriceCache(price_file) = Get(Get(gph).fetched)

----------------------------------------------------------------------------
(* YFinanceMarketDataProvider._compute_beta, lines 361-388 *)

\* the least number of joined rows for which a beta is computed
MinJoined == 60

\* exact arithmetic on rationals, kept in lowest terms
RECURSIVE GCD(_, _)
GCD(a, b) == IF b = 0 THEN a ELSE GCD(b, a % b)
Abs(x) == IF x < 0 THEN -x ELSE x
RatNorm(x) ==
    LET g == GCD(Abs(x.n), x.d)
    IN  IF x.n = 0 THEN Rat(0, 1) ELSE Rat(x.n \div g, x.d \div g)
\* sums over the least common denominator, products and quotients reduced
\* crosswise before multiplying, so that the numbers stay small
RatAdd(a, b) ==
    LET l == (a.d \div GCD(a.d, b.d)) * b.d
    IN  RatNorm(Rat(a.n * (l \div a.d) + b.n * (l \div b.d), l))
RatNeg(a) == Rat(-a.n, a.d)
RatSub(a, b) == RatAdd(a, RatNeg(b))
RatTimes(a, b) ==
    IF a.n = 0 \/ b.n = 0 THEN Rat(0, 1)
    ELSE LET g1 == GCD(Abs(a.n), b.d)
             g2 == GCD(Abs(b.n), a.d)
         IN  RatNorm(Rat((a.n \div g1) * (b.n \div g2), (a.d \div g2) * (b.d \div g1)))
RatInverse(b) == IF b.n > 0 THEN Rat(b.d, b.n) ELSE Rat(-b.d, -b.n)
RatDiv(a, b) == RatTimes(a, RatInverse(b))

\* a Close series of n consecutive days from first_day, the closes
\* alternating between a and b
CloseSeries(first_day, n, a, b) ==
    [k \in 1..n |-> [Date |-> first_day + k - 1,
                     Close |-> IF k % 2 = 1 THEN a ELSE b]]

\* pd.DataFrame({"stock": ..., "market": ...}).dropna(): the dates both have
Joined(stock_series, market_series) ==
    LET common == SelectSeq(stock_series,
                      LAMBDA r : \E k \in 1..Len(market_series) :
                                     market_series[k].Date = r.Date)
    IN  [k \in 1..Len(common) |->
            [stock |-> common[k].Close,
             market |-> (LET j == CHOOSE j \in 1..Len(market_series) :
                                      market_series[j].Date = common[k].Date
                         IN  market_series[j].Close)]]

\* the floats that are not numbers of the model: nan and inf
NaNFloat == [n |-> 0, d |-> 0]
InfFloat == [n |-> 1, d |-> 0]

\* np.isfinite
IsFinite(x) == x.d # 0

\* cur / prev - 1 in floats: inf after a close of zero, nan for 0 / 0
PctChange(prev, cur) ==
    IF prev # 0 THEN RatNorm(Rat(cur - prev, prev))
    ELSE IF cur = 0 THEN NaNFloat ELSE InfFloat

\* joined.pct_change().dropna(): dropna removes the nan rows, not the inf
Returns(joined) ==
    LET changes == [k \in 1..(Len(joined) - 1) |->
                       [stock |-> PctChange(joined[k].stock, joined[k + 1].stock),
                        market |-> PctChange(joined[k].market, joined[k + 1].market)]]
    IN  SelectSeq(changes, LAMBDA c : c.stock # NaNFloat /\ c.market # NaNFloat)

\* the sum of seq[lo..hi], halving the range
RECURSIVE RatSumRange(_, _, _)
RatSumRange(seq, lo, hi) ==
    IF lo > hi THEN Rat(0, 1)
    ELSE IF lo = hi THEN seq[lo]
    ELSE LET mid == (lo + hi) \div 2
         IN  RatAdd(RatSumRange(seq, lo, mid), RatSumRange(seq, mid + 1, hi))
RatSum(seq) == RatSumRange(seq, 1, Len(seq))

\* np.cov(x, y, ddof=1)[0, 1]; np.var(x, ddof=1) is Covariance(x, x)
\* an inf among the values makes the mean inf and the result nan; one
\* value alone divides 0 by 0
Covariance(x, y) ==
    LET n == Len(x)
        mean_x == RatDiv(RatSum(x), Rat(n, 1))
        mean_y == RatDiv(RatSum(y), Rat(n, 1))
        products == [k \in 1..n |-> RatTimes(RatSub(x[k], mean_x), RatSub(y[k], mean_y))]
    IN  IF n < 2 \/ \E k \in 1..n : ~IsFinite(x[k]) \/ ~IsFinite(y[k])
        THEN NaNFloat
        ELSE RatDiv(RatSum(products), Rat(n - 1, 1))

\* market_var <= 1e-12, false of nan
TinyVariance(v) == IsFinite(v) /\ v.n <= ((v.d \div 10000) \div 10000) \div 10000

\* cov / market_var in floats; market_var is not zero here
FloatDiv(a, b) == IF IsFinite(a) /\ IsFinite(b) THEN RatDiv(a, b) ELSE NaNFloat

\* mutant: the quotient is returned without the np.isfinite test
ComputeBeta_NoFiniteTest(stock_series, market_series) ==
    IF stock_series = <<>> \/ market_series = <<>> THEN Rat(1, 1)
    ELSE LET joined == Joined(stock_series, market_series)
         IN  IF Len(joined) < MinJoined THEN Rat(1, 1)
             ELSE LET returns == Returns(joined)
                      stock_returns == [k \in 1..Len(returns) |-> returns[k].stock]
                      market_returns == [k \in 1..Len(returns) |-> returns[k].market]
                  IN  IF returns = <<>> THEN Rat(1, 1)
                      ELSE LET market_var == Covariance(market_returns, market_returns)
                           IN  IF TinyVariance(market_var) THEN Rat(1, 1)
                               ELSE FloatDiv(Covariance(stock_returns, market_returns),
                                             market_var)

\* _compute_beta once the two histories are there
ComputeBeta(stock_series, market_series) ==
    IF stock_series = <<>> \/ market_series = <<>> THEN Rat(1, 1)
    ELSE LET joined == Joined(stock_series, market_series)
         IN  IF Len(joined) < MinJoined THEN Rat(1, 1)
             ELSE LET returns == Returns(joined)
                      stock_returns == [k \in 1..Len(returns) |-> returns[k].stock]
                      market_returns == [k \in 1..Len(returns) |-> returns[k].market]
                  IN  IF returns = <<>> THEN Rat(1, 1)
                      ELSE LET market_var == Covariance(market_returns, market_returns)
                               beta_float == FloatDiv(Covariance(stock_returns,
                                                                 market_returns),
                                                      market_var)
                           IN  IF TinyVariance(market_var) THEN Rat(1, 1)
                               ELSE IF ~IsFinite(beta_float) THEN Rat(1, 1)
                               ELSE beta_float

\* the histories get_price_history hands to _compute_beta: the first day,
\* the number of rows and the two closes of each
SeriesLengths == {0, MinJoined - 1, MinJoined, MinJoined + 1}
StockShapes == [first_day : {1}, rows : SeriesLengths, a : {0, 1, 2}, b : {2}]
MarketShapes == [first_day : {1, 2}, rows : SeriesLengths, a : {2, 3}, b : {3}]
SeriesOf(shape) == CloseSeries(shape.first_day, shape.rows, shape.a, shape.b)

\* _compute_beta on every pair of histories: the rows joined and the beta
ComputeBetaResults ==
    {[stock |-> stock_shape, market |-> market_shape,
      joined_rows |-> Len(Joined(SeriesOf(stock_shape), SeriesOf(market_shape))),
      beta |-> ComputeBeta(SeriesOf(stock_shape), SeriesOf(market_shape))] :
        stock_shape \in StockShapes, market_shape \in MarketShapes}

\* one call of _compute_beta
ComputeBetaCall(stock_shape, market_shape) ==
    /\ \E call \in ComputeBetaResults :
          /\ call.stock = stock_shape
          /\ call.market = market_shape
          /\ cb' = Some(call)
    /\ UNCHANGED <<today, price_file, gph, meta_file, gtm>>
    /\ UNCHANGED <<detVars, runVars, uniVars>>

InitBeta ==
    /\ OthersIdle
    /\ ProvIdle

BetaNext ==
    \E stock_shape \in StockShapes : \E market_shape \in MarketShapes :
        ComputeBetaCall(stock_shape, market_shape)

SpecBeta == InitBeta /\ [][BetaNext]_vars

\* the daily return observations the two series have in common: one less
\* than the rows they have in common
ReturnObservations(joined_rows) == IF joined_rows = 0 THEN 0 ELSE joined_rows - 1

\* C20: with fewer than 60 overlapping daily return observations
\* _compute_beta returns exactly 1.0, whatever the prices are.
C20_FewObservationsGiveOne ==
    (~IsNone(cb) /\ ReturnObservations(Get(cb).joined_rows) < 60)
        => Get(cb).beta = Rat(1, 1)

----------------------------------------------------------------------------
(* YFinanceMarketDataProvider.get_ticker_meta and the meta cache file *)

\* the number of day changes modelled
MaxDays == 1

\* the arguments and the upstream results of get_ticker_meta
Lookbacks == {365, 730}

\* what yfinance answers for the market cap, in dollars: the lookup raises,
\* the cap is missing from fast_info and info, or it is there
CapRaises == [kind |-> "raise", market_cap |-> None]
CapMissing == [kind |-> "value", market_cap |-> None]
CapUpstreams ==
    {CapRaises, CapMissing,
     [kind |-> "value", market_cap |-> Some(50000000)],
     [kind |-> "value", market_cap |-> Some(100000000)]}

\* _fetch_market_cap_musd: None when the lookup raises or finds no cap
FetchMarketCapMusd(up) ==
    IF up.kind = "raise" THEN None
    ELSE IF IsNone(up.market_cap) THEN None
    ELSE Some(Get(up.market_cap) \div 1000000)

\* the betas _compute_beta returns on the histories of the model
BetaValues == {call.beta : call \in ComputeBetaResults}

\* a meta file that is not the JSON of a payload: a file cut short, which
\* json.loads rejects, and a JSON list, which it parses
TruncatedJson == [text |-> "{"]
JsonList == [text |-> "[]"]
DamagedMetaFiles == {TruncatedJson, JsonList}
IsDamaged(file) == ~IsNone(file) /\ Get(file) \in DamagedMetaFiles

\* _read_meta_cache: {} when there is no file or json.loads raises, a
\* missing key reads as None; a JSON list is returned as it is
ReadMetaCache(file) ==
    IF IsNone(file) \/ file = Some(TruncatedJson)
    THEN [as_of |-> None, market_cap_musd |-> None, beta_as_of |-> None,
          beta_lookback_days |-> None, beta_value |-> None]
    ELSE IF file = Some(JsonList) THEN [not_a_dict |-> "list"]
    ELSE [as_of |-> Some(Get(file).as_of),
          market_cap_musd |-> Get(file).market_cap_musd,
          beta_as_of |-> Some(Get(file).beta_as_of),
          beta_lookback_days |-> Some(Get(file).beta_lookback_days),
          beta_value |-> Some(Get(file).beta_value)]

\* lines 123-124: the cached market cap, if the entry is of today
CachedCap(cached, today_str) ==
    IF cached.as_of = Some(today_str) THEN cached.market_cap_musd ELSE None

\* mutant: the cached beta is reused whatever lookback it was computed for
CachedBeta_AnyLookback(cached, today_str, beta_lookback_days) ==
    IF /\ cached.beta_as_of = Some(today_str)
       /\ ~IsNone(cached.beta_value)
    THEN cached.beta_value
    ELSE None

\* lines 126-131: the cached beta, if it is of today and of this lookback
CachedBeta(cached, today_str, beta_lookback_days) ==
    IF /\ cached.beta_as_of = Some(today_str)
       /\ cached.beta_lookback_days = Some(beta_lookback_days)
       /\ ~IsNone(cached.beta_value)
    THEN cached.beta_value
    ELSE None

\* mutant: the payload keeps the provider's default lookback
MetaPayload_DefaultLookback(today_str, cap, beta_lookback_days, beta_value) ==
    [as_of |-> today_str, market_cap_musd |-> cap,
     beta_as_of |-> today_str, beta_lookback_days |-> 730,
     beta_value |-> beta_value]

\* lines 139-145: the payload written to the meta cache
MetaPayload(today_str, cap, beta_lookback_days, beta_value) ==
    [as_of |-> today_str, market_cap_musd |-> cap,
     beta_as_of |-> today_str, beta_lookback_days |-> beta_lookback_days,
     beta_value |-> beta_value]

\* get_ticker_meta; cap_up is what yfinance answers and beta_computed what
\* _compute_beta returns if they are called. `cached.get` raises
\* AttributeError on a cache file that holds a JSON list.
GetTickerMeta(beta_lookback_days, cap_up, beta_computed) ==
    LET today_str == FormatDate(today)
        cached == ReadMetaCache(meta_file)
        cached_cap == CachedCap(cached, today_str)
        cached_beta == CachedBeta(cached, today_str, beta_lookback_days)
        cap == IF IsNone(cached_cap) THEN FetchMarketCapMusd(cap_up) ELSE cached_cap
        beta_value == IF IsNone(cached_beta) THEN beta_computed ELSE Get(cached_beta)
    IN  /\ IF "not_a_dict" \in DOMAIN cached
           THEN /\ gtm' = Some([today_str |-> today_str,
                                beta_lookback_days |-> beta_lookback_days,
                                raised |-> "AttributeError"])
                /\ meta_file' = meta_file
           ELSE /\ meta_file' = Some(MetaPayload(today_str, cap, beta_lookback_days,
                                                 beta_value))
                /\ gtm' = Some([today_str |-> today_str,
                                beta_lookback_days |-> beta_lookback_days,
                                cached |-> cached,
                                fetch_market_cap_called |-> IsNone(cached_cap),
                                cap_upstream |-> IF IsNone(cached_cap) THEN Some(cap_up)
                                                 ELSE None,
                                compute_beta_called |-> IsNone(cached_beta),
                                market_cap_musd |-> cap, beta |-> beta_value])
        /\ UNCHANGED <<today, price_file, gph, cb>>
        /\ UNCHANGED <<detVars, runVars, uniVars>>

\* midnight passes: date.today() changes
NextDay ==
    /\ today < 31 + MaxDays
    /\ today' = today + 1
    /\ UNCHANGED <<meta_file, gtm, price_file, gph, cb>>
    /\ UNCHANGED <<detVars, runVars, uniVars>>

InitMeta ==
    /\ OthersIdle
    /\ UniIdle
    /\ price_file = <<>>
    /\ gph = <<>>
    /\ today = 31
    /\ meta_file = <<>>
    /\ gtm = <<>>
    /\ cb = <<>>

MetaNext ==
    \/ \E beta_lookback_days \in Lookbacks : \E cap_up \in CapUpstreams :
          \E beta_computed \in BetaValues :
              GetTickerMeta(beta_lookback_days, cap_up, beta_computed)
    \/ NextDay

SpecMeta == InitMeta /\ [][MetaNext]_vars

\* C19: the cached market cap is reused only from an entry whose as_of is
\* today, the cached beta only from an entry whose beta_as_of is today and
\* whose beta_lookback_days is the requested one; each test is made on its
\* own: a field that misses is recomputed whether or not the other is reused.
C19_MetaCacheFreshness ==
    ~IsNone(gtm) =>
        LET call == Get(gtm)
            cap_fresh == /\ call.cached.as_of = Some(call.today_str)
                         /\ ~IsNone(call.cached.market_cap_musd)
            beta_fresh == /\ call.cached.beta_as_of = Some(call.today_str)
                          /\ call.cached.beta_lookback_days = Some(call.beta_lookback_days)
        IN  /\ call.fetch_market_cap_called <=> ~cap_fresh
            /\ ~call.fetch_market_cap_called =>
                   call.market_cap_musd = call.cached.market_cap_musd
            /\ call.compute_beta_called <=> ~beta_fresh
            /\ ~call.compute_beta_called => Some(call.beta) = call.cached.beta_value

\* the market cap was reused from today's entry while the beta, cached for
\* another lookback, was recomputed
C19_Witness ==
    /\ ~IsNone(gtm)
    /\ ~Get(gtm).fetch_market_cap_called
    /\ Get(gtm).compute_beta_called
    /\ Get(gtm).cached.beta_as_of = Some(Get(gtm).today_str)
    /\ Get(gtm).cached.beta_lookback_days # Some(Get(gtm).beta_lookback_days)

\* the beta was reused while the market cap, unknown in today's entry, was
\* fetched again
C19_BetaReusedCapFetched ==
    /\ ~IsNone(gtm)
    /\ Get(gtm).fetch_market_cap_called
    /\ ~Get(gtm).compute_beta_called

----------------------------------------------------------------------------
(* Claims on the recovery-day distribution, the drawdown frame and the caches *)

\* the recovery_days of the stocks of a list, in the list's order
RecoveryDaysOf(stocks) ==
    LET with_days == SelectSeq(stocks, LAMBDA item : ~IsNone(item.recovery_days))
    IN  [k \in 1..Len(with_days) |-> Get(with_days[k].recovery_days)]

\* the number of values of a sequence that are at most x, in 1e-4 units
CountAtMost(values, x) == Cardinality({k \in 1..Len(values) : 10000 * values[k] <= x})
CountAtLeast(values, x) == Cardinality({k \in 1..Len(values) : 10000 * values[k] >= x})

\* C27: the distribution is that of the recovery_days of the stocks of
\* recovered_stocks: with no recovered stock the three percentiles are null,
\* otherwise the three are present, p25 <= median <= p75, they lie between
\* the least and the greatest recovery_days, and at least half of the values
\* lie on either side of the median.
C27_RecoveryDaysDistribution ==
    rpc = "done" =>
        LET sm == Get(summary)
            dist == sm.recovery_days_distribution
            values == RecoveryDaysOf(sm.recovered_stocks)
        IN  /\ \A k \in 1..Len(sm.recovered_stocks) :
                   ~IsNone(sm.recovered_stocks[k].recovery_days)
            /\ IF sm.recovered_stocks = <<>>
               THEN IsNone(dist.p25) /\ IsNone(dist.median) /\ IsNone(dist.p75)
               ELSE /\ ~IsNone(dist.p25) /\ ~IsNone(dist.median) /\ ~IsNone(dist.p75)
                    /\ Get(dist.p25) <= Get(dist.median)
                    /\ Get(dist.median) <= Get(dist.p75)
                    /\ \E k \in 1..Len(values) : 10000 * values[k] <= Get(dist.p25)
                    /\ \E k \in 1..Len(values) : 10000 * values[k] >= Get(dist.p75)
                    /\ 2 * CountAtMost(values, Get(dist.median)) >= Len(values)
                    /\ 2 * CountAtLeast(values, Get(dist.median)) >= Len(values)

\* two recovered stocks with recovery_days 1 and 3: the percentiles are
\* 1.5, 2.0 and 2.5
C27_Witness ==
    /\ rpc = "done"
    /\ Len(Get(summary).recovered_stocks) = 2
    /\ Get(summary).recovery_days_distribution =
           [p25 |-> Some(15000), median |-> Some(20000), p75 |-> Some(25000)]

\* the drawdown frame of the detector's locals
DrawdownFrame(d) ==
    <<d.event_peak_price, d.event_peak_date, d.trigger_price, d.trigger_date>>

\* C28: the bar that opens a drawdown sets the trough to its low and date;
\* while the drawdown lasts no later bar changes the trough or the event
\* peak, whatever its low; the event appended at the recovery or at the end
\* of the series carries that trough and the decline computed from it.
C28_TroughFrozenInDrawdown ==
    [][/\ (det.state = "tracking_peak" /\ det'.state = "in_drawdown")
           => /\ det'.trigger_price = row'.Low
              /\ det'.trigger_date = row'.date
       /\ (det.state = "in_drawdown" /\ det'.state = "in_drawdown")
           => DrawdownFrame(det') = DrawdownFrame(det)
       /\ (det.state = "in_drawdown" /\ Len(det'.events) = Len(det.events) + 1)
           => LET e == Last(det'.events) IN
              /\ e.trough_price = det.trigger_price
              /\ e.trough_date = det.trigger_date
              /\ e.peak_price = det.event_peak_price
              /\ e.peak_date = det.event_peak_date
              /\ RatEq(e.decline_pct,
                       Rat((det.event_peak_price - det.trigger_price) * 100,
                           det.event_peak_price))]_vars

\* an event was emitted although a bar after the trigger, inside the
\* drawdown, went below the recorded trough
C28_Witness ==
    /\ dpc = "returned"
    /\ det.state = "in_drawdown"
    /\ row.date > det.trigger_date
    /\ row.Low < det.trigger_price
    /\ det.events # <<>>
    /\ Last(det.events).trough_price = det.trigger_price
    /\ ~Last(det.events).recovered

\* the rows of a frame dated within [start_date, end_date], in order
RowsWithin(frame, start_date, end_date) ==
    SelectSeq(frame, LAMBDA r : start_date <= r.Date /\ r.Date <= end_date)

\* C29: a call that misses the cache and fetches at least one usable row
\* leaves a cache file of the header and one line per fetched row, which
\* reads back as the fetched series (every row of the entry is a fetched
\* row), and returns the fetched rows dated within [start_date, end_date].
C29_MissReplacesCacheEntry ==
    [][(gph' # gph /\ ~IsNone(Get(gph').fetched)
            /\ Get(Get(gph').fetched) # EmptyFrame)
        => LET call == Get(gph')
               fetched == Get(call.fetched)
               entry == ReadPriceCache(price_file')
           IN  /\ ~IsNone(price_file')
               /\ Len(Get(price_file')) = Len(fetched) + 1
               /\ entry = fetched
               /\ \A k \in 1..Len(entry) : \E j \in 1..Len(fetched) : entry[k] = fetched[j]
               /\ call.result = RowsWithin(fetched, call.start_date, call.end_date)]_vars

\* the entry before the call held a row that was not fetched again, and
\* the range cut the fetched series
C29_Witness ==
    /\ ~IsNone(gph)
    /\ ~IsNone(Get(gph).fetched)
    /\ LET call == Get(gph)
           fetched == Get(call.fetched)
       IN  /\ fetched # EmptyFrame
           /\ \E k \in 1..Len(call.cached) :
                  \A j \in 1..Len(fetched) : call.cached[k] # fetched[j]
           /\ call.result # EmptyFrame
           /\ call.result # fetched
           /\ ReadPriceCache(price_file) = fetched

\* the histories of a _compute_beta call are missing, too short, or
\* degenerate: a benchmark that does not move, or a stock close of zero,
\* after which the return is infinite
MissingHistory(call) == call.stock.rows = 0 \/ call.market.rows = 0
InsufficientHistory(call) == call.joined_rows < MinJoined
DegenerateHistory(call) ==
    \/ call.market.a = call.market.b
    \/ call.stock.a = 0 \/ call.stock.b = 0

C30_MetaEntryIsWhatWasReturned ==
    (~IsNone(gtm) /\ "raised" \notin DOMAIN Get(gtm)) =>
        LET call == Get(gtm) IN
        /\ ~IsNone(meta_file)
        /\ DOMAIN Get(meta_file) = {"as_of", "market_cap_musd", "beta_as_of",
                                    "beta_lookback_days", "beta_value"}
        /\ Get(meta_file).as_of = call.today_str
        /\ Get(meta_file).beta_as_of = call.today_str
        /\ Get(meta_file).beta_lookback_days = call.beta_lookback_days
        /\ Get(meta_file).market_cap_musd = call.market_cap_musd
        /\ Get(meta_file).beta_value = call.beta

\* a call on a later day, for another lookback, that reused nothing: the
\* entry of the day before was replaced
C30_Witness ==
    /\ ~IsNone(gtm)
    /\ "raised" \notin DOMAIN Get(gtm)
    /\ Get(gtm).cached.as_of # None
    /\ Get(gtm).cached.as_of # Some(Get(gtm).today_str)
    /\ Get(gtm).cached.beta_lookback_days # Some(Get(gtm).beta_lookback_days)
    /\ Get(gtm).cached.market_cap_musd # Get(gtm).market_cap_musd
    /\ Get(gtm).cached.beta_value # Some(Get(gtm).beta)
    /\ Get(meta_file).beta_lookback_days = 365

----------------------------------------------------------------------------
(* Specification SpecMetaDamage: get_ticker_meta over a meta cache file    *)
(* that something outside the provider may damage between two calls        *)

\* the file is cut short or replaced by other JSON
DamageMetaFile(content) ==
    /\ meta_file # Some(content)
    /\ meta_file' = Some(content)
    /\ UNCHANGED <<today, gtm, price_file, gph, cb>>
    /\ UNCHANGED <<detVars, runVars, uniVars>>

MetaDamageNext ==
    \/ MetaNext
    \/ \E content \in DamagedMetaFiles : DamageMetaFile(content)

SpecMetaDamage == InitMeta /\ [][MetaDamageNext]_vars

\* C22: a call of get_ticker_meta that finds a damaged meta cache file does
\* not raise, fetches the market cap and computes the beta as on a miss, and
\* leaves the file rewritten with the payload of what it returned.
C22_DamagedCacheIsAMiss ==
    [][(IsDamaged(meta_file) /\ gtm' # gtm)
        => LET call == Get(gtm') IN
           /\ "raised" \notin DOMAIN call
           /\ call.fetch_market_cap_called
           /\ call.compute_beta_called
           /\ meta_file' = Some(MetaPayload(call.today_str, call.market_cap_musd,
                                            call.beta_lookback_days, call.beta))]_vars

----------------------------------------------------------------------------
(* YFinanceMarketDataProvider.get_default_universe: the fallback chain of  *)
(* sources and the resize.  A listing file is absent (<<>>), unparsable,   *)
(* or a CSV of named columns with one row per ticker.                      *)

UnparsableCsv == [kind |-> "unparsable", columns |-> {}, rows |-> <<>>]
Csv(columns, rows) == [kind |-> "csv", columns |-> columns, rows |-> rows]

\* FALLBACK_SP500_TICKERS, cut to six of its tickers, in its order
FALLBACK_SP500_TICKERS ==
    <<<<"P", "G">>, <<"H", "D">>, <<"P", "E", "P">>, <<"B", "A", "C">>,
      <<"C", "R", "M">>, <<"M", "C", "D">>>>

\* _dedupe_keep_order: normalize, skip the empty and the seen
RECURSIVE DedupeFrom(_, _)
DedupeFrom(ordered, rest) ==
    IF rest = <<>> THEN ordered
    ELSE LET ticker == NormalizeTicker(Head(rest))
         IN  IF ticker = <<>> \/ ticker \in Range(ordered)
             THEN DedupeFrom(ordered, Tail(rest))
             ELSE DedupeFrom(Append(ordered, ticker), Tail(rest))
DedupeKeepOrder(raw_tickers) == DedupeFrom(<<>>, raw_tickers)

\* the ticker column of a listing, as read
TickerColumn(content) == [k \in 1..Len(content.rows) |-> content.rows[k].ticker]

\* sorted(set(column.str.upper().str.replace(".", "-")))
SortedSymbols(column) ==
    SortedStrings({ReplaceChar(Upper(column[k]), ".", "-") : k \in 1..Len(column)})

UniverseData(source, as_of, listed, raw) ==
    [source |-> source, as_of |-> as_of, tickers |-> listed, raw |-> raw]

\* mutant: the cached listing is used whatever its stamp
LoadLiveCache_AnyDay(file, today_day) ==
    IF IsNone(file) \/ Get(file).kind = "unparsable" THEN None
    ELSE IF "ticker" \notin Get(file).columns \/ Get(file).rows = <<>> THEN None
    ELSE Some(UniverseData("wikipedia-live-cache", Some(today_day),
                           SortedSymbols(TickerColumn(Get(file))),
                           TickerColumn(Get(file))))

\* lines 175-190: the live listing cached today, or None; whatever the
\* reading raises is swallowed
LoadLiveCache(file, today_day) ==
    IF IsNone(file) \/ Get(file).kind = "unparsable" THEN None
    ELSE IF "ticker" \notin Get(file).columns \/ Get(file).rows = <<>> THEN None
    ELSE LET as_of == IF "as_of" \in Get(file).columns
                      THEN Some(ParseDate(Get(file).rows[1].as_of))
                      ELSE None
         IN  IF as_of = Some(today_day)
             THEN Some(UniverseData("wikipedia-live-cache", as_of,
                                    SortedSymbols(TickerColumn(Get(file))),
                                    TickerColumn(Get(file))))
             ELSE None

\* what pd.read_html answers: it raises, or a table with or without the
\* Symbol column
HtmlRaises == [kind |-> "raise", columns |-> {}, symbols |-> <<>>]
HtmlNoSymbol == [kind |-> "table", columns |-> {"Security"}, symbols |-> <<>>]
HtmlListing ==
    [kind |-> "table", columns |-> {"Symbol", "Security"},
     symbols |-> <<<<"M", "S">>, <<"b", ".", "a">>, <<"A", "B", "C">>,
                   <<"M", "S">>, <<"C", "O", "R">>>>]
HtmlShortListing ==
    [kind |-> "table", columns |-> {"Symbol", "Security"},
     symbols |-> <<<<"G">>>>]
LiveFetches == {HtmlRaises, HtmlNoSymbol, HtmlListing, HtmlShortListing}

\* save.to_csv(sp500_live_cache_path, index=False)
WriteLiveCache(listed, today_day) ==
    Csv({"ticker", "as_of"},
        [k \in 1..Len(listed) |-> [ticker |-> listed[k], as_of |-> FormatDate(today_day)]])

\* lines 192-202: the live fetch; to_csv raising is swallowed with the rest
\* and the listing is lost
LoadLiveFetch(fetch, persist_ok, today_day) ==
    IF fetch.kind = "raise" \/ "Symbol" \notin fetch.columns
    THEN [universe |-> None, written |-> None]
    ELSE LET listed == SortedSymbols(fetch.symbols)
         IN  IF persist_ok
             THEN [universe |-> Some(UniverseData("wikipedia-live", Some(today_day),
                                                  listed, fetch.symbols)),
                   written |-> Some(WriteLiveCache(listed, today_day))]
             ELSE [universe |-> None, written |-> None]

\* _load_snapshot_sp500: pd.read_csv is not inside a try
LoadSnapshot(file) ==
    IF IsNone(file) THEN [raised |-> FALSE, universe |-> None]
    ELSE IF Get(file).kind = "unparsable" THEN [raised |-> TRUE, universe |-> None]
    ELSE IF "ticker" \notin Get(file).columns \/ Get(file).rows = <<>>
         THEN [raised |-> FALSE, universe |-> None]
    ELSE [raised |-> FALSE,
          universe |-> Some(UniverseData(
              "snapshot-feb2026",
              IF "as_of" \in Get(file).columns
              THEN Some(ParseDate(Get(file).rows[1].as_of)) ELSE None,
              SortedSymbols(TickerColumn(Get(file))),
              TickerColumn(Get(file))))]

\* the ticker column the seed list is made of: the file's, or the constant
SeedColumn(file) ==
    IF /\ ~IsNone(file)
       /\ Get(file).kind = "csv"
       /\ "ticker" \in Get(file).columns
       /\ Get(file).rows # <<>>
       /\ DedupeKeepOrder(TickerColumn(Get(file))) # <<>>
    THEN TickerColumn(Get(file))
    ELSE FALLBACK_SP500_TICKERS

\* _load_default_seed_tickers
LoadDefaultSeedTickers(file) == DedupeKeepOrder(SeedColumn(file))

\* mutant: seed tickers are appended whether or not they are there already
RECURSIVE PadFromSeed_Duplicates(_, _, _)
PadFromSeed_Duplicates(listed, seed, target_size) ==
    IF seed = <<>> THEN listed
    ELSE LET appended == Append(listed, Head(seed))
         IN  IF Len(appended) >= target_size THEN appended
             ELSE PadFromSeed_Duplicates(appended, Tail(seed), target_size)

\* lines 242-247: `for ticker in seed`, entered with len(tickers) < target_size
RECURSIVE PadFromSeed(_, _, _)
PadFromSeed(listed, seed, target_size) ==
    IF seed = <<>> THEN listed
    ELSE LET appended == IF Head(seed) \notin Range(listed)
                         THEN Append(listed, Head(seed)) ELSE listed
         IN  IF Len(appended) >= target_size THEN appended
             ELSE PadFromSeed(appended, Tail(seed), target_size)

\* max(1, self.default_universe_size)
TargetSize(size) == Max2(1, size)

\* _resize_default_universe; the source is tagged with the size applied
ResizeDefaultUniverse(universe, seed_tickers, size) ==
    LET deduped == DedupeKeepOrder(universe.tickers)
        target_size == TargetSize(size)
        padded == IF Len(deduped) < target_size
                  THEN PadFromSeed(deduped, seed_tickers, target_size)
                  ELSE deduped
        resized == IF Len(padded) > target_size
                   THEN SubSeq(padded, 1, target_size) ELSE padded
    IN  [source |-> <<universe.source, "-top", target_size>>,
         as_of |-> universe.as_of, tickers |-> resized]

\* the sources in the order get_default_universe goes through them
SourcePriority == <<"live-cache", "live-fetch", "snapshot", "seed">>

\* get_default_universe; fetch is what pd.read_html answers and persist_ok
\* whether to_csv can write the live cache, if they are called
GetDefaultUniverse(fetch, persist_ok) ==
    LET cached == LoadLiveCache(live_cache_file, today)
        fetched == LoadLiveFetch(fetch, persist_ok, today)
        live == IF IsNone(cached) THEN fetched.universe ELSE cached
        snapshot == LoadSnapshot(snapshot_file)
        seed_tickers == LoadDefaultSeedTickers(seed_file)
        static == UniverseData("fallback-static", None, seed_tickers,
                               SeedColumn(seed_file))
        raised == IsNone(live) /\ snapshot.raised
        chosen == IF ~IsNone(live) THEN Get(live)
                  ELSE IF ~IsNone(snapshot.universe) THEN Get(snapshot.universe)
                  ELSE static
        consulted == IF ~IsNone(cached) THEN 1
                     ELSE IF ~IsNone(live) THEN 2
                     ELSE IF raised \/ ~IsNone(snapshot.universe) THEN 3
                     ELSE 4
    IN  /\ live_cache_file' = IF IsNone(cached) /\ ~IsNone(fetched.written)
                              THEN fetched.written ELSE live_cache_file
        /\ gdu' = Some([today |-> today,
                        consulted |-> SubSeq(SourcePriority, 1, consulted),
                        fetch |-> IF IsNone(cached) THEN Some(fetch) ELSE None,
                        persist_ok |-> IsNone(cached) /\ persist_ok,
                        raised |-> raised,
                        chosen |-> IF raised THEN None ELSE Some(chosen),
                        deduped |-> IF raised THEN <<>>
                                    ELSE DedupeKeepOrder(chosen.tickers),
                        seed |-> seed_tickers,
                        target_size |-> TargetSize(default_universe_size),
                        universe |-> IF raised THEN None
                                     ELSE Some(ResizeDefaultUniverse(
                                              chosen, seed_tickers,
                                              default_universe_size))])
        /\ UNCHANGED <<snapshot_file, seed_file, default_universe_size>>
        /\ UNCHANGED <<detVars, runVars, provVars>>

\* the bundled files and the configured size of a deployment
ListingRow(ticker, day) == [ticker |-> ticker, as_of |-> FormatDate(day)]
SnapshotListing ==
    Csv({"ticker", "as_of"},
        <<ListingRow(<<"S">>, 40), ListingRow(<<"C", "O", "R">>, 40),
          ListingRow(<<"A", "B", "C">>, 40), ListingRow(<<"a">>, 40)>>)
SnapshotFiles ==
    {None, Some(UnparsableCsv), Some(Csv({"symbol"}, <<>>)), Some(SnapshotListing)}
SeedScenario ==
    Csv({"ticker"},
        [k \in 1..10 |->
            [ticker |-> <<<<"A">>, <<"B">>, <<"C">>, <<"D">>, <<"E">>,
                          <<"F">>, <<"G">>, <<"H">>, <<"I">>, <<"J">>>>[k]]])
SeedMessy ==
    Csv({"ticker"},
        <<[ticker |-> <<"m", "s">>], [ticker |-> <<" ", "M", "S">>],
          [ticker |-> <<"A", "B", "C">>], [ticker |-> <<"G">>]>>)
SeedFiles == {None, Some(UnparsableCsv), Some(SeedScenario), Some(SeedMessy)}
UniverseSizes == {0, 5}

InitUniverse ==
    /\ OthersIdle
    /\ price_file = <<>>
    /\ gph = <<>>
    /\ today = 31
    /\ meta_file = <<>>
    /\ gtm = <<>>
    /\ cb = <<>>
    /\ live_cache_file \in {None, Some(UnparsableCsv)}
    /\ snapshot_file \in SnapshotFiles
    /\ seed_file \in SeedFiles
    /\ default_universe_size \in UniverseSizes
    /\ gdu = <<>>

UniverseNext ==
    \/ \E fetch \in LiveFetches : \E persist_ok \in BOOLEAN :
          GetDefaultUniverse(fetch, persist_ok)
    \/ NextDay

SpecUniverse == InitUniverse /\ [][UniverseNext]_vars

----------------------------------------------------------------------------
(* Claims about get_default_universe *)

\* a listing file that can supply tickers: a CSV with a ticker column and
\* at least one row
HasListing(file) ==
    /\ ~IsNone(file)
    /\ Get(file).kind = "csv"
    /\ "ticker" \in Get(file).columns
    /\ Get(file).rows # <<>>

\* the live cache holds a listing stamped with the day `day`
CachedOn(file, day) ==
    /\ HasListing(file)
    /\ "as_of" \in Get(file).columns
    /\ Get(file).rows[1].as_of = FormatDate(day)

\* the live fetch of a call supplied a listing and it was persisted
FetchSucceeded(call) ==
    /\ ~IsNone(call.fetch)
    /\ Get(call.fetch).kind = "table"
    /\ "Symbol" \in Get(call.fetch).columns
    /\ call.persist_ok

\* C23: the sources are gone through in the order live cache, live fetch,
\* snapshot, seed, and the call stops at the first that supplies a listing:
\* the live cache if it is stamped today; else the live fetch, whose listing
\* is then in the live cache file stamped today; else the snapshot; else
\* the seed.  No source after the one used is consulted.
C23_SourcesInPriorityOrder ==
    [][gdu' # gdu =>
        LET call == Get(gdu')
            used == Last(call.consulted)
            source == Get(call.chosen).source
        IN  /\ \E n \in 1..4 : call.consulted = SubSeq(SourcePriority, 1, n)
            /\ CachedOn(live_cache_file, today)
                   => /\ used = "live-cache" /\ source = "wikipedia-live-cache"
                      /\ live_cache_file' = live_cache_file
            /\ (~CachedOn(live_cache_file, today) /\ FetchSucceeded(call))
                   => /\ used = "live-fetch" /\ source = "wikipedia-live"
                      /\ CachedOn(live_cache_file', today)
                      /\ TickerColumn(Get(live_cache_file')) = Get(call.chosen).tickers
                      /\ Get(call.chosen).as_of = Some(today)
            /\ (~CachedOn(live_cache_file, today) /\ ~FetchSucceeded(call))
                   => /\ ~IsNone(call.fetch)
                      /\ live_cache_file' = live_cache_file
                      /\ IF HasListing(snapshot_file)
                         THEN used = "snapshot" /\ source = "snapshot-feb2026"
                         ELSE IF call.raised THEN used = "snapshot"
                         ELSE used = "seed" /\ source = "fallback-static"]_vars

\* a call served from the live cache that an earlier call of the day wrote
C23_Witness ==
    /\ ~IsNone(gdu)
    /\ Get(gdu).consulted = <<"live-cache">>
    /\ Get(Get(gdu).chosen).source = "wikipedia-live-cache"
    /\ Get(Get(gdu).universe).tickers # <<>>
    /\ CachedOn(live_cache_file, Get(gdu).today)

\* C24: get_default_universe returns a universe whatever the live cache
\* file, the live fetch, the snapshot file and the seed file do; a source
\* that throws counts as failed and the next one is tried.
C24_NoExceptionEscapes ==
    ~IsNone(gdu) => (~Get(gdu).raised /\ ~IsNone(Get(gdu).universe))

NoDuplicateTickers(list) ==
    \A i, j \in 1..Len(list) : list[i] = list[j] => i = j
AllNormalized(list) == \A i \in 1..Len(list) : NormalizeTicker(list[i]) = list[i]
IsPrefix(a, b) == Len(a) <= Len(b) /\ SubSeq(b, 1, Len(a)) = a

\* C25: the tickers returned are normalized and without duplicates, and
\* those taken from the source's listing are in the order in which the
\* listing first shows them.
C25_NormalizedUniqueFirstSeen ==
    (~IsNone(gdu) /\ ~Get(gdu).raised) =>
        LET call == Get(gdu)
            returned == Get(call.universe).tickers
            first_seen == DedupeKeepOrder(Get(call.chosen).raw)
            from_listing == SubSeq(returned, 1, Min2(Len(returned), Len(first_seen)))
        IN  /\ AllNormalized(returned)
            /\ NoDuplicateTickers(returned)
            /\ IsPrefix(from_listing, first_seen)

\* the target size the resize applies
AppliedSize == IF default_universe_size < 1 THEN 1 ELSE default_universe_size

\* the letters A to J
SeedLetters ==
    <<<<"A">>, <<"B">>, <<"C">>, <<"D">>, <<"E">>,
      <<"F">>, <<"G">>, <<"H">>, <<"I">>, <<"J">>>>

\* C26: the resized list has at most N tickers and no duplicate; a list of
\* N or more is cut to its first N; a shorter one is followed by the seed
\* tickers it does not hold, in seed order, up to N or the end of the
\* seed; the seed A..J resized to 5 is A, B, C, D, E.
C26_ResizeDeterministic ==
    /\ ResizeDefaultUniverse(UniverseData("fallback-static", None, SeedLetters,
                                          SeedLetters), SeedLetters, 5).tickers
           = SubSeq(SeedLetters, 1, 5)
    /\ (~IsNone(gdu) /\ ~Get(gdu).raised) =>
           LET call == Get(gdu)
               resized == Get(call.universe).tickers
               missing == SelectSeq(call.seed, LAMBDA t : t \notin Range(call.deduped))
               extended == call.deduped \o missing
           IN  /\ Len(resized) <= AppliedSize
               /\ NoDuplicateTickers(resized)
               /\ Len(call.deduped) >= AppliedSize
                      => resized = SubSeq(call.deduped, 1, AppliedSize)
               /\ Len(call.deduped) < AppliedSize
                      => resized = SubSeq(extended, 1, Min2(AppliedSize, Len(extended)))

\* a short listing was extended from a seed that holds one of its tickers,
\* and the seed ran out before the target size
C26_Witness ==
    /\ ~IsNone(gdu)
    /\ ~Get(gdu).raised
    /\ Get(gdu).deduped # <<>>
    /\ \E i \in 1..Len(Get(gdu).seed) : Get(gdu).seed[i] \in Range(Get(gdu).deduped)
    /\ Len(Get(Get(gdu).universe).tickers) > Len(Get(gdu).deduped)
    /\ Len(Get(Get(gdu).universe).tickers) < AppliedSize

----------------------------------------------------------------------------
(* Claims on the threshold, the event counts, the pool and the failures *)

\* a field of StockAnalysis, kept in units of 1e-4, as a float
Field4(v) == Rat(v, 10000)

RECURSIVE SumQualifyingEvents(_)
SumQualifyingEvents(stocks) ==
    IF stocks = <<>> THEN 0
    ELSE Head(stocks).qualifying_events + SumQualifyingEvents(Tail(stocks))
RECURSIVE SumRecoveredEvents(_)
SumRecoveredEvents(stocks) ==
    IF stocks = <<>> THEN 0
    ELSE Head(stocks).recovered_events + SumRecoveredEvents(Tail(stocks))

\* C32: in the summary declined_event_count is the sum of qualifying_events
\* and recovered_event_count the sum of recovered_events over the entries of
\* declined_stocks; recovered_event_count <= declined_event_count,
\* declined_event_count >= declined_stock_count, and every StockAnalysis has
\* 1 <= qualifying_events and recovered_events <= qualifying_events.
C32_EventCountsAreSums ==
    rpc = "done" =>
        LET sm == Get(summary) IN
        /\ sm.declined_event_count = SumQualifyingEvents(sm.declined_stocks)
        /\ sm.recovered_event_count = SumRecoveredEvents(sm.declined_stocks)
        /\ sm.recovered_event_count <= sm.declined_event_count
        /\ sm.declined_event_count >= sm.declined_stock_count
        /\ \A k \in 1..Len(sm.declined_stocks) :
              /\ sm.declined_stocks[k].qualifying_events >= 1
              /\ sm.declined_stocks[k].recovered_events >= 0
              /\ sm.declined_stocks[k].recovered_events
                     <= sm.declined_stocks[k].qualifying_events

\* one declined stock with two events of which one recovered,
\* beside a ticker that failed or was excluded
C32_Witness ==
    /\ rpc = "done"
    /\ Get(summary).declined_stock_count = 1
    /\ Get(summary).evaluated_ticker_count = 2
    /\ Get(summary).declined_event_count = 2
    /\ Get(summary).recovered_event_count = 1

----------------------------------------------------------------------------
(* Specification SpecPool: one call of run over a list long enough for the *)
(* pool to be smaller than the list; every ticker has no price history     *)

PoolTickerLists == {[i \in 1..n |-> <<"M", "S">>] : n \in 0..MaxPoolTickers}

InitPool ==
    /\ DetIdle
    /\ ProvIdle
    /\ tickers \in PoolTickerLists
    /\ rpc = "init"
    /\ max_workers = 0
    /\ task_ticker = <<>>
    /\ tpc = <<>>
    /\ prices = <<>>
    /\ market_cap_musd = <<>>
    /\ outcome = <<>>
    /\ collected = {}
    /\ declined_stocks = <<>>
    /\ declined_event_count = 0
    /\ recovered_event_count = 0
    /\ failed_tickers = <<>>
    /\ summary = None

\* lines 181-184: get_price_history returns an empty frame and the task
\* returns its ticker
TaskReturnsNoHistory(i) ==
    /\ tpc[i] = "price"
    /\ Finish(i, FailedOutcome(task_ticker[i], "warning"))
    /\ UNCHANGED <<tickers, rpc, max_workers, task_ticker,
                   collected, declined_stocks, declined_event_count,
                   recovered_event_count, failed_tickers, summary>>
    /\ UNCHANGED <<detVars, provVars, uniVars>>

PoolNext ==
    \/ Submit
    \/ \E i \in Tasks : StartTask(i)
    \/ \E i \in Tasks : TaskReturnsNoHistory(i)
    \/ \E i \in Tasks : Collect(i)
    \/ Aggregate

SpecPool == InitPool /\ [][PoolNext]_vars

\* min(16, max(1, cpu_count * 4), ticker_count), os.cpu_count() of None
\* counting as 4
ClaimedPoolSize(cpus, ticker_count) ==
    LET by_cpu == IF cpus = 0 THEN 16 ELSE IF cpus * 4 < 1 THEN 1 ELSE cpus * 4
        smaller == IF by_cpu < 16 THEN by_cpu ELSE 16
    IN  IF ticker_count < smaller THEN ticker_count ELSE smaller

ExecutingTasks == {i \in Tasks : Running(i)}

\* C33: once the pool is made, the tasks executing at any moment are at
\* most min(16, max(1, cpu_count*4), ticker_count) for the cpu count the
\* pool was made with, and the pool has at least one worker; over an empty
\* list nothing is awaited and the summary is returned.
C33_PoolBoundsConcurrency ==
    /\ rpc # "init" =>
          /\ max_workers >= 1
          /\ \E cpus \in CpuCounts :
                /\ max_workers = MaxWorkers(cpus, Len(tickers))
                /\ Cardinality(ExecutingTasks) <= ClaimedPoolSize(cpus, Len(tickers))
    /\ (tickers = <<>> /\ rpc = "collecting") => AllCollected
    /\ rpc = "done" =>
          /\ ~IsNone(summary)
          /\ Get(summary).evaluated_ticker_count = Len(tickers)

\* five tickers on one cpu: four tasks execute and the fifth waits
C33_Witness ==
    /\ rpc = "collecting"
    /\ Len(tickers) = 5
    /\ max_workers = 4
    /\ Cardinality(ExecutingTasks) = 4
    /\ \E i \in Tasks : tpc[i] = "queued"

----------------------------------------------------------------------------
(* Claim on the failed tickers of a summary *)

\* C34: in every returned summary failed_ticker_count is the number of
\* entries of failed_tickers, and failed_tickers is strictly ascending
\* (sorted and free of duplicates).
C34_FailedCountMatchesList ==
    rpc = "done" =>
        LET sm == Get(summary)
        IN  /\ sm.failed_ticker_count = Len(sm.failed_tickers)
            /\ \A i, j \in 1..Len(sm.failed_tickers) :
                  i < j => StrLess(sm.failed_tickers[i], sm.failed_tickers[j])

----------------------------------------------------------------------------
(* Claim on the running peak of the detector *)

\* C35: in tracking_peak the running peak price never decreases, and a bar
\* whose high sets a new running peak stays in tracking_peak however low its
\* low; in drawdown the running peak is untouched until the recovery bar,
\* which becomes the running peak.
C35_RunningPeakDiscipline ==
    [][/\ det.state = "tracking_peak"
           => /\ det'.peak_price >= det.peak_price
              /\ row'.High > det.peak_price
                   => /\ det'.state = "tracking_peak"
                      /\ det'.peak_price = row'.High
                      /\ det'.peak_date = row'.date
                      /\ det'.events = det.events
       /\ (det.state = "in_drawdown" /\ det'.state = "in_drawdown")
           => /\ det'.peak_price = det.peak_price
              /\ det'.peak_date = det.peak_date
       /\ (det.state = "in_drawdown" /\ det'.state = "tracking_peak")
           => /\ det'.peak_price = row'.High
              /\ det'.peak_date = row'.date
              /\ det'.peak_price >= det.peak_price]_vars

\* a bar after the first set a new running peak with a low that is a
\* decline of at least the threshold from its own high, and no event opened
C35_Witness ==
    /\ dpc = "loop"
    /\ idx >= 2
    /\ det.state = "tracking_peak"
    /\ det.events = <<>>
    /\ det.peak_date = row.date
    /\ det.peak_price = row.High
    /\ row.date > 0
    /\ RatGE(DeclinePct(row.High, row.Low), threshold_pct)

----------------------------------------------------------------------------
(* Claims on a repeated get_price_history call *)

\* the call recorded in gph fetched a usable series and wrote the cache,
\* and the next call has the same arguments
RepeatsFetchingCall(prev, call) ==
    /\ ~IsNone(prev)
    /\ ~IsNone(Get(prev).fetched)
    /\ Get(Get(prev).fetched) # EmptyFrame
    /\ call.start_date = Get(prev).start_date
    /\ call.end_date = Get(prev).end_date

\* C36 as stated: after a call that fetched from upstream and wrote the
\* cache, the repeated call with the same arguments is served from the cache
\* without an upstream fetch and returns the same series.
C36_RepeatServedFromCache ==
    [][RepeatsFetchingCall(gph, Get(gph'))
          => /\ IsNone(Get(gph').upstream)
             /\ Get(gph').result = Get(gph).result]_vars

\* C36, amended: after a call that fetched from upstream and wrote the
\* cache, the repeated call with the same arguments is served from the cache
\* with the same series and the file untouched when the fetched series
\* starts on or before start and ends no more than 2 days before end;
\* otherwise it fetches from upstream again.
C36_RepeatServedWhenCovering ==
    [][RepeatsFetchingCall(gph, Get(gph'))
          => IF CoveringSeries(Get(Get(gph).fetched),
                               Get(gph).start_date, Get(gph).end_date)
             THEN /\ IsNone(Get(gph').upstream)
                  /\ Get(gph').result = Get(gph).result
                  /\ price_file' = price_file
             ELSE ~IsNone(Get(gph').upstream)]_vars

\* a call was served, without a fetch, the whole series of the cache file,
\* which starts on the requested start date
C36_Witness ==
    /\ ~IsNone(gph)
    /\ IsNone(Get(gph).upstream)
    /\ Get(gph).cached # EmptyFrame
    /\ Get(gph).cached[1].Date = Get(gph).start_date
    /\ Get(gph).result = Get(gph).cached
    /\ ReadPriceCache(price_file) = Get(gph).cached

====
